---- MODULE Spec2Model ----
(***************************************************************************)
(* The cache-first synchronisation and optimistic-mutation engine of the   *)
(* mail client: the update loop of src/src/app.rs (AppModel::update), the  *)
(* background tasks its handlers spawn, and the cache those tasks use.     *)
(*                                                                         *)
(* One action per message handler of update(), one action per background   *)
(* task.  A task is spawned by a handler (it joins `tasks`), runs at some  *)
(* later moment (its cache or network effect happens atomically, its       *)
(* result message joins `inbox`), and the result is handled by update() at *)
(* a still later moment.  Tasks are independent futures: neither the order *)
(* in which they run nor the order in which their results are handled is   *)
(* fixed by the code.                                                      *)
(*                                                                         *)
(* Rust indices are kept 0-based; Option<T> is <<>> (None) or <<v>>        *)
(* (Some(v)).  Formatted status texts keep their fixed part only.          *)
(***************************************************************************)
EXTENDS Naturals, Integers, Sequences, FiniteSets, Bags, TLC

\* ------------------------------------------------------------------ bounds

\* Page size of a cache read (store::DEFAULT_PAGE_SIZE), scaled down.
DEFAULT_PAGE_SIZE == 2
\* Number of messages of the user interface (clicks, key presses) in a run.
MaxIntents == 2

\* Longest message list the server returns or the cache holds for a mailbox:
\* two full pages and one row more.
MaxRows == 2 * DEFAULT_PAGE_SIZE + 1

\* ------------------------------------------------------------------ Option

None == <<>>
Some(v) == <<v>>
IsSome(o) == o # <<>>
Unwrap(o) == o[1]

Min(a, b) == IF a < b THEN a ELSE b

\* ------------------------------------------------------------------ data

\* core::models::Folder, the fields update() reads.
Folder(p, h) == [path |-> p, mailbox_hash |-> h]

\* core::models::MessageSummary, the fields update() reads or writes.
MessageSummary(e, mh, r, s) ==
    [envelope_hash |-> e, mailbox_hash |-> mh, is_read |-> r, is_starred |-> s]

\* Mailbox hashes of the folders the server may report: INBOX is 1, Trash 2,
\* Archive 3.
Mailboxes == 1..3

\* Folder lists a fetch_folders or a cached load may return.  Paths are
\* unique within a list (a path is a folder's identity within the account).
FolderLists ==
    { <<>>,
      << Folder("INBOX", 1), Folder("Trash", 2) >>,
      << Folder("Archive", 3), Folder("INBOX", 1) >> }

\* Envelope hash of the k-th message of mailbox mh (unique in the account).
EnvelopeOf(mh, k) == 10 * mh + k

\* The message list of n unread, unstarred messages of mailbox mh.
ServerMessages(mh, n) ==
    [k \in 1..n |-> MessageSummary(EnvelopeOf(mh, k), mh, FALSE, FALSE)]

\* Vec::get(i) on a 0-based index.
Get(seq, i) == IF i >= 0 /\ i < Len(seq) THEN Some(seq[i + 1]) ELSE None

\* Vec::remove(i), i in range.
Remove(seq, i) == SubSeq(seq, 1, i) \o SubSeq(seq, i + 2, Len(seq))

\* iter().position(|f| f.path == p): the first index, 0-based.
Position(fs, p) ==
    IF \E i \in 1..Len(fs) : fs[i].path = p
    THEN Some((CHOOSE i \in 1..Len(fs) :
                 /\ fs[i].path = p
                 /\ \A j \in 1..(i - 1) : fs[j].path # p) - 1)
    ELSE None

\* The ids of the accounts a configuration may hold.
MaxAccounts == 2
AccountIds == 1..MaxAccounts

\* ------------------------------------------------------------------ state

VARIABLES
    \* AppModel (src/src/app.rs:20-53)
    config,             \* Option<Config>: TRUE iff Some
    session,            \* Option<Arc<ImapSession>>: TRUE iff Some
    cache,              \* Option<CacheHandle>: TRUE iff Some
    folders,            \* Vec<Folder>
    selected_folder,    \* Option<usize>
    messages,           \* Vec<MessageSummary>
    selected_message,   \* Option<usize>
    messages_offset,    \* u32
    has_more_messages,  \* bool
    preview_body,       \* String: <<>> is the empty string
    folder_map,         \* HashMap<String, u64>: a set of <<path, hash>>
    is_syncing,         \* bool
    status_message,     \* String
    show_setup_dialog,  \* bool
    password_only_mode, \* bool
    setup_error,        \* Option<String>
    \* the cache database behind CacheHandle
    cache_folders,      \* the folders table
    cache_msgs,         \* the messages table, per mailbox hash, in list order
    cache_bodies,       \* envelope hashes with a stored body
    \* the runtime
    tasks,              \* bag of spawned tasks that have not run yet
    inbox,              \* bag of task results update() has not handled yet
    \* the server, as the tasks saw it
    net_folders,        \* Option: the last folder list fetch_folders returned
    net_msgs,           \* per mailbox, Option: the last list fetch_messages returned
    \* the handler update() ran last
    last,
    \* how many messages of the user interface update() has taken in the run
    intents,
    \* the account registry of the multi-account AppModel
    \* (src/src/app/types.rs:71-142); the handlers of app.rs never touch it
    accounts,           \* Vec<AccountState>
    active_account,     \* Option<usize>
    setup_model,        \* Option<SetupModel>: Some(id) edits account id,
                        \* Some(0) sets up a new account
    keyring,            \* the passwords in the keyring: << service, key >>
    cache_accounts,     \* account ids with rows in the cache database
    connects_started,   \* per account id, how many ImapSession::connect
                        \* calls were made: the n-th yields session n
    \* view state of the multi-account AppModel (types.rs:92-97, 138-139) and
    \* the watch streams of its subscription (mod.rs:277-288)
    collapsed_threads,  \* HashSet<u64>: thread ids whose children are hidden
    visible_indices,    \* Vec<usize>: visible row -> index into messages
    auto_read_suppressed, \* bool
    watch_ended,        \* << account id, session >> of the watch streams
                        \* that have terminated
    watch_streams,      \* the running watch streams by the index of their
                        \* subscription id: None or the account id and the
                        \* session the stream was created with
    \* one call of core::mime::render_body_markdown (mime.rs:34-56)
    text_plain,         \* Option<&str>: the text/plain part
    text_html,          \* Option<&str>: the text/html part
    rendered            \* None before the call, Some(result) after it

appVars == << config, session, cache, folders, selected_folder, messages,
              selected_message, messages_offset, has_more_messages,
              preview_body, folder_map, is_syncing, status_message,
              show_setup_dialog, password_only_mode, setup_error >>
cacheVars == << cache_folders, cache_msgs, cache_bodies >>
netVars == << net_folders, net_msgs >>
acctVars == << accounts, active_account, setup_model, keyring, cache_accounts,
               connects_started >>
mimeVars == << text_plain, text_html, rendered >>
uiVars == << collapsed_threads, visible_indices, auto_read_suppressed,
             watch_ended, watch_streams, mimeVars >>
vars == << appVars, cacheVars, tasks, inbox, netVars, last, intents, acctVars,
           uiVars >>

setupVars == << config, show_setup_dialog, password_only_mode, setup_error >>
folderVars == << folders, folder_map >>
listVars == << messages, messages_offset, has_more_messages >>
viewVars == << selected_message, preview_body >>

\* ------------------------------------------------------------------ cache

\* store::flags_to_u8: bit 0 is read, bit 1 is starred.
flags_to_u8(is_read, is_starred) ==
    (IF is_read THEN 1 ELSE 0) + (IF is_starred THEN 2 ELSE 0)

\* A row of the messages table: the flags the server confirmed, the flags
\* shown locally, and the pending-operation marker ("" when there is none).
RowOf(m) ==
    LET f == flags_to_u8(m.is_read, m.is_starred) IN
    [envelope_hash |-> m.envelope_hash, mailbox_hash |-> m.mailbox_hash,
     flags_server |-> f, flags_local |-> f, pending_op |-> ""]

SummaryOf(row) ==
    MessageSummary(row.envelope_hash, row.mailbox_hash,
                   row.flags_local % 2 = 1, (row.flags_local \div 2) % 2 = 1)

\* CacheHandle::load_messages(mailbox_hash, limit, offset): one page.
load_messages(mailbox_hash, limit, offset) ==
    LET rows == cache_msgs[mailbox_hash]
        n == IF offset >= Len(rows) THEN 0 ELSE Min(limit, Len(rows) - offset)
    IN  [k \in 1..n |-> SummaryOf(rows[offset + k])]

\* CacheHandle::save_messages(mailbox_hash, msgs): the mailbox's rows become
\* exactly the fetched list.
save_messages(mailbox_hash, msgs) ==
    [cache_msgs EXCEPT ![mailbox_hash] = [k \in 1..Len(msgs) |-> RowOf(msgs[k])]]

\* CacheHandle::update_flags(envelope_hash, new_flags, pending_op): the
\* envelope's row shows new_flags and carries the marker.
update_flags(envelope_hash, new_flags, pending_op) ==
    [mh \in Mailboxes |->
        [k \in 1..Len(cache_msgs[mh]) |->
            IF cache_msgs[mh][k].envelope_hash = envelope_hash
            THEN [cache_msgs[mh][k] EXCEPT !.flags_local = new_flags,
                                           !.pending_op = pending_op]
            ELSE cache_msgs[mh][k]]]

\* CacheHandle::clear_pending_op(envelope_hash, confirmed_flags): the row
\* holds the confirmed flags and no marker.
clear_pending_op(envelope_hash, new_flags) ==
    [mh \in Mailboxes |->
        [k \in 1..Len(cache_msgs[mh]) |->
            IF cache_msgs[mh][k].envelope_hash = envelope_hash
            THEN [cache_msgs[mh][k] EXCEPT !.flags_server = new_flags,
                                           !.flags_local = new_flags,
                                           !.pending_op = ""]
            ELSE cache_msgs[mh][k]]]

\* CacheHandle::revert_pending_op(envelope_hash): the row shows the
\* confirmed flags again and carries no marker.
revert_pending_op(envelope_hash) ==
    [mh \in Mailboxes |->
        [k \in 1..Len(cache_msgs[mh]) |->
            IF cache_msgs[mh][k].envelope_hash = envelope_hash
            THEN [cache_msgs[mh][k] EXCEPT
                     !.flags_local = cache_msgs[mh][k].flags_server,
                     !.pending_op = ""]
            ELSE cache_msgs[mh][k]]]

\* CacheHandle::remove_message(envelope_hash).
remove_message(envelope_hash) ==
    LET Keep(row) == row.envelope_hash # envelope_hash
    IN  [mh \in Mailboxes |-> SelectSeq(cache_msgs[mh], Keep)]

\* The row of an envelope, if the cache has one.
CacheRow(envelope_hash) ==
    IF \E mh \in Mailboxes : \E k \in 1..Len(cache_msgs[mh]) :
          cache_msgs[mh][k].envelope_hash = envelope_hash
    THEN LET mh == CHOOSE h \in Mailboxes : \E k \in 1..Len(cache_msgs[h]) :
                      cache_msgs[h][k].envelope_hash = envelope_hash
             k == CHOOSE j \in 1..Len(cache_msgs[mh]) :
                      cache_msgs[mh][j].envelope_hash = envelope_hash
         IN  Some(cache_msgs[mh][k])
    ELSE None

\* ------------------------------------------------------------------ folder map

RECURSIVE InsertAll(_, _)
\* for f in folders { map.insert(f.path, f.mailbox_hash) }: an insert
\* replaces the entry of its key.
InsertAll(map, fs) ==
    IF fs = <<>> THEN map
    ELSE InsertAll({e \in map : e[1] # Head(fs).path}
                       \cup {<<Head(fs).path, Head(fs).mailbox_hash>>},
                   Tail(fs))

\* A rebuild that forgets to clear the map first.
RebuildWithoutClear(fs) == InsertAll(folder_map, fs)

\* rebuild_folder_map: clear, then insert every folder.
rebuild_folder_map(fs) == InsertAll({}, fs)

\* HashMap::get(key).
MapGet(map, key) ==
    IF \E e \in map : e[1] = key
    THEN Some((CHOOSE e \in map : e[1] = key)[2])
    ELSE None

\* a.or_else(|| b)
OrElse(a, b) == IF IsSome(a) THEN a ELSE b

\* ------------------------------------------------------------------ runtime

\* A spawned task: its kind and what its closure captured.  `cached` is the
\* cache handle the closure holds, `online` the session it holds.  `removed`
\* remembers, for a move, the message taken out of the list and its index.
\* A closure with more than one await runs one await a step: `stage` counts
\* the awaits it has behind it and `fetched` holds what the last one gave.
Task(kind) ==
    [kind |-> kind, mailbox_hash |-> 0, offset |-> 0, envelope_hash |-> 0,
     new_flags |-> 0, prev_flags |-> 0, pending_op |-> "", dest |-> 0,
     cached |-> FALSE, online |-> FALSE, removed |-> <<>>,
     account_id |-> 0, seq |-> 0, stage |-> 0, fetched |-> <<>>]

\* A task result on its way to update().  mailbox_hash, offset, remaining,
\* prev_flags and removed say where the result comes from; no handler of
\* app.rs reads them.
Result(kind, ok) ==
    [kind |-> kind, ok |-> ok, folders |-> <<>>, messages |-> <<>>,
     envelope_hash |-> 0, new_flags |-> 0, prev_flags |-> 0, body |-> <<>>,
     mailbox_hash |-> 0, offset |-> 0, remaining |-> 0, removed |-> <<>>,
     account_id |-> 0, seq |-> 0]

Spawn(bag, ts) == bag (+) SetToBag(ts)
Take(bag, t) == bag (-) SetToBag({t})
\* The closure of task t is suspended at its next await, holding value.
Suspend(bag, t, value) ==
    Spawn(Take(bag, t), {[t EXCEPT !.stage = t.stage + 1, !.fetched = value]})
Quiescent == tasks = EmptyBag /\ inbox = EmptyBag

\* ------------------------------------------------------------------ tasks

\* cache.load_folders() (app.rs:162-166)
LoadFoldersTask == Task("load_folders")
\* ImapSession::connect(config) (app.rs:173-175, 403-405)
ConnectTask == Task("connect")
\* session.fetch_folders(), then cache.save_folders (app.rs:493-501, 1084-1092)
SyncFoldersTask == [Task("sync_folders") EXCEPT !.cached = cache]
\* cache.load_messages(mailbox_hash, DEFAULT_PAGE_SIZE, offset)
LoadMessagesTask(mailbox_hash, offset) ==
    [Task("load_messages") EXCEPT !.mailbox_hash = mailbox_hash, !.offset = offset]
\* session.fetch_messages(mailbox_hash), then cache.save_messages
SyncMessagesTask(mailbox_hash) ==
    [Task("sync_messages") EXCEPT !.mailbox_hash = mailbox_hash, !.cached = cache]
\* the body load of SelectMessage (app.rs:742-769, 775-779)
BodyTask(envelope_hash) ==
    [Task("load_body") EXCEPT !.envelope_hash = envelope_hash,
                              !.cached = cache, !.online = session]
\* cache.update_flags(envelope_hash, new_flags, op)
UpdateFlagsTask(envelope_hash, new_flags, op) ==
    [Task("update_flags") EXCEPT !.envelope_hash = envelope_hash,
                                 !.new_flags = new_flags, !.pending_op = op]
\* session.set_flags(envelope_hash, mailbox_hash, [flag_op])
SetFlagsTask(envelope_hash, mailbox_hash, new_flags, prev_flags) ==
    [Task("set_flags") EXCEPT !.envelope_hash = envelope_hash,
                              !.mailbox_hash = mailbox_hash,
                              !.new_flags = new_flags, !.prev_flags = prev_flags]
\* session.move_messages(envelope_hash, source_mailbox, dest)
MoveTask(envelope_hash, source_mailbox, dest, msg, index) ==
    [Task("move_messages") EXCEPT !.envelope_hash = envelope_hash,
                                  !.mailbox_hash = source_mailbox,
                                  !.dest = dest, !.removed = <<msg, index>>]
\* cache.clear_pending_op(envelope_hash, new_flags)
ClearPendingTask(envelope_hash, new_flags) ==
    [Task("clear_pending_op") EXCEPT !.envelope_hash = envelope_hash,
                                     !.new_flags = new_flags]
\* cache.revert_pending_op(envelope_hash)
RevertPendingTask(envelope_hash) ==
    [Task("revert_pending_op") EXCEPT !.envelope_hash = envelope_hash]
\* cache.remove_message(envelope_hash)
RemoveMessageTask(envelope_hash) ==
    [Task("remove_message") EXCEPT !.envelope_hash = envelope_hash]

\* update() takes a message of the user interface: a run takes at most
\* MaxIntents of them.
Intent(name) ==
    /\ intents < MaxIntents
    /\ intents' = intents + 1
    /\ last' = name
    /\ UNCHANGED << acctVars, uiVars >>
\* update() takes the result of a task.
Handled(name) ==
    /\ last' = name
    /\ UNCHANGED << intents, acctVars, uiVars >>

\* ------------------------------------------------------------------ init

\* What the cache database may hold when the program starts: a folder list
\* of an earlier run and, per mailbox, the rows of an earlier sync.
CacheRowCounts == {0, 1, DEFAULT_PAGE_SIZE, 2 * DEFAULT_PAGE_SIZE, MaxRows}
InitCache ==
    /\ cache_folders \in FolderLists
    /\ \E n \in CacheRowCounts :
          cache_msgs = [mh \in Mailboxes |->
                           [k \in 1..n |-> RowOf(ServerMessages(mh, n)[k])]]
    /\ cache_bodies = {}

\* No body is being rendered.
NoRender ==
    /\ text_plain = None
    /\ text_html = None
    /\ rendered = None

\* No subscription is running: the runtime has not evaluated
\* AppModel::subscription yet.
NoStreams == [k \in 0..(MaxAccounts - 1) |-> None]

\* The view state AppModel::init constructs (mod.rs:88-90, 119): no thread
\* is collapsed, no projection is computed, no watch stream has ended.
FreshView ==
    /\ collapsed_threads = {}
    /\ visible_indices = <<>>
    /\ auto_read_suppressed = FALSE
    /\ watch_ended = {}
    /\ watch_streams = NoStreams
    /\ NoRender

\* The single-account program of app.rs keeps no account registry.
NoRegistry ==
    /\ accounts = <<>>
    /\ active_account = None
    /\ setup_model = None
    /\ keyring = {}
    /\ cache_accounts = {}
    /\ connects_started = [id \in AccountIds |-> 0]

\* AppModel::init (app.rs:118-201).  Config::resolve() gives a config
\* ("ok"), or asks for the full setup or for the password only; the request
\* for the password carries an error or none (app.rs:187-194).
Init ==
    /\ cache \in BOOLEAN
    /\ \E resolved \in {"ok", "full", "password"} :
        /\ setup_error \in (IF resolved = "password"
                             THEN {None, Some("Keyring unavailable")}
                             ELSE {None})
        /\ config = (resolved = "ok")
        /\ is_syncing = (resolved = "ok")
        /\ show_setup_dialog = (resolved # "ok")
        /\ password_only_mode = (resolved = "password")
        /\ status_message = (CASE resolved = "ok" -> "Starting up..."
                               [] resolved = "full" -> "Setup required"
                               [] OTHER -> "Password required")
        /\ tasks = SetToBag((IF cache THEN {LoadFoldersTask} ELSE {})
                            \cup (IF resolved = "ok" THEN {ConnectTask} ELSE {}))
    /\ session = FALSE
    /\ folders = <<>>
    /\ selected_folder = None
    /\ messages = <<>>
    /\ selected_message = None
    /\ messages_offset = 0
    /\ has_more_messages = FALSE
    /\ preview_body = <<>>
    /\ folder_map = {}
    /\ InitCache
    /\ inbox = EmptyBag
    /\ net_folders = None
    /\ net_msgs = [mh \in Mailboxes |-> None]
    /\ last = "init"
    /\ intents = 0
    /\ NoRegistry
    /\ FreshView

\* ------------------------------------------------------------------ task runs
\* A task's run: its cache or network effect, and the message it resolves to.
\* A read of the cache, a write of it and a network operation succeed or
\* fail; a failed write is logged by the closure and leaves the cache as it
\* was.  A step runs one await of the closure.

Deliver(r) == inbox' = Spawn(inbox, {r})

\* cache.load_folders().await (app.rs:163-165)
RunLoadFolders(t) ==
    /\ t.kind = "load_folders"
    /\ tasks' = Take(tasks, t)
    /\ \E ok \in BOOLEAN :
          Deliver([Result("CachedFoldersLoaded", ok) EXCEPT
                      !.folders = IF ok THEN cache_folders ELSE <<>>])
    /\ UNCHANGED << appVars, cacheVars, netVars, last, intents, acctVars,
                    uiVars >>

\* ImapSession::connect(config).await (app.rs:173-175)
RunConnect(t) ==
    /\ t.kind = "connect"
    /\ tasks' = Take(tasks, t)
    /\ \E ok \in BOOLEAN : Deliver(Result("Connected", ok))
    /\ UNCHANGED << appVars, cacheVars, netVars, last, intents, acctVars,
                    uiVars >>

\* fetch_folders, save_folders on success when a cache is held
\* (app.rs:493-501 and 1084-1092)
RunSyncFolders(t) ==
    /\ t.kind = "sync_folders"
    /\ IF t.stage = 0
       THEN \* session.fetch_folders().await
            \E ok \in BOOLEAN : \E fs \in FolderLists :
            /\ net_folders' = IF ok THEN Some(fs) ELSE net_folders
            /\ IF ok /\ t.cached
               THEN /\ tasks' = Suspend(tasks, t, fs)
                    /\ UNCHANGED inbox
               ELSE /\ tasks' = Take(tasks, t)
                    /\ Deliver([Result("SyncFoldersComplete", ok) EXCEPT
                                   !.folders = IF ok THEN fs ELSE <<>>])
            /\ UNCHANGED cache_folders
       ELSE \* cache.save_folders(folders).await, Err logged
            /\ \E saved \in BOOLEAN :
                  cache_folders' = IF saved THEN t.fetched ELSE cache_folders
            /\ tasks' = Take(tasks, t)
            /\ Deliver([Result("SyncFoldersComplete", TRUE) EXCEPT
                           !.folders = t.fetched])
            /\ UNCHANGED net_folders
    /\ UNCHANGED << appVars, cache_msgs, cache_bodies, net_msgs, last, intents, acctVars,
                    uiVars >>

\* cache.load_messages(mailbox_hash, DEFAULT_PAGE_SIZE, offset).await
\* (app.rs:438-444, 593-599, 659-663, 717-723)
RunLoadMessages(t) ==
    /\ t.kind = "load_messages"
    /\ tasks' = Take(tasks, t)
    /\ LET rows == cache_msgs[t.mailbox_hash] IN
       \E ok \in BOOLEAN :
       Deliver([Result("CachedMessagesLoaded", ok) EXCEPT
                   !.messages =
                       IF ok
                       THEN load_messages(t.mailbox_hash, DEFAULT_PAGE_SIZE,
                                          t.offset)
                       ELSE <<>>,
                   !.mailbox_hash = t.mailbox_hash,
                   !.offset = t.offset,
                   !.remaining = IF t.offset >= Len(rows) THEN 0
                                 ELSE Len(rows) - t.offset])
    /\ UNCHANGED << appVars, cacheVars, netVars, last, intents, acctVars,
                    uiVars >>

\* fetch_messages, save_messages on success when a cache is held
\* (app.rs:550-563 and 672-685)
RunSyncMessages(t) ==
    /\ t.kind = "sync_messages"
    /\ IF t.stage = 0
       THEN \* session.fetch_messages(mailbox_hash).await
            \E ok \in BOOLEAN : \E n \in 0..MaxRows :
            LET msgs == ServerMessages(t.mailbox_hash, n) IN
            /\ net_msgs' = IF ok
                           THEN [net_msgs EXCEPT ![t.mailbox_hash] = Some(msgs)]
                           ELSE net_msgs
            /\ IF ok /\ t.cached
               THEN /\ tasks' = Suspend(tasks, t, msgs)
                    /\ UNCHANGED inbox
               ELSE /\ tasks' = Take(tasks, t)
                    /\ Deliver([Result("SyncMessagesComplete", ok) EXCEPT
                                   !.mailbox_hash = t.mailbox_hash])
            /\ UNCHANGED cache_msgs
       ELSE \* cache.save_messages(mh, msgs).await, Err logged
            /\ \E saved \in BOOLEAN :
                  cache_msgs' = IF saved
                                THEN save_messages(t.mailbox_hash, t.fetched)
                                ELSE cache_msgs
            /\ tasks' = Take(tasks, t)
            /\ Deliver([Result("SyncMessagesComplete", TRUE) EXCEPT
                           !.mailbox_hash = t.mailbox_hash])
            /\ UNCHANGED net_msgs
    /\ UNCHANGED << appVars, cache_folders, cache_bodies, net_folders, last, intents, acctVars,
                    uiVars >>

\* The body of a message: what fetch_body returns and load_body gives back.
BodyOf(envelope_hash) == << "body", envelope_hash >>

\* cache.load_body(envelope_hash).await as the closure reads it
\* (app.rs:743-745): TRUE for Ok(Some(body)), FALSE for Ok(None) and for Err.
load_body(envelope_hash) ==
    IF envelope_hash \in cache_bodies THEN BOOLEAN ELSE {FALSE}

\* BodyLoaded of a body load: the body, or the error.
BodyResult(t, ok) ==
    [Result("BodyLoaded", ok) EXCEPT
        !.envelope_hash = t.envelope_hash,
        !.body = IF ok THEN BodyOf(t.envelope_hash) ELSE <<>>]

\* The body load (app.rs:742-769 with a cache, 775-779 without): with a
\* cache the closure awaits cache.load_body, on a miss session.fetch_body
\* and on a fetched body cache.save_body; without one it awaits
\* session.fetch_body alone.
RunBody(t) ==
    /\ t.kind = "load_body"
    /\ IF t.cached /\ t.stage = 0
       THEN \* cache.load_body(envelope_hash).await: Ok(Some(body)) is a
            \* hit, Ok(None) and Err go on to the fetch
            /\ \E hit \in load_body(t.envelope_hash) :
                  IF hit
                  THEN /\ tasks' = Take(tasks, t)
                       /\ Deliver(BodyResult(t, TRUE))
                  ELSE IF t.online
                       THEN /\ tasks' = Suspend(tasks, t, <<>>)
                            /\ UNCHANGED inbox
                       ELSE /\ tasks' = Take(tasks, t)
                            /\ Deliver(BodyResult(t, FALSE))
            /\ UNCHANGED cache_bodies
       ELSE IF t.cached /\ t.stage = 2
       THEN \* cache.save_body(envelope_hash, body).await, Err logged
            /\ \E saved \in BOOLEAN :
                  cache_bodies' = IF saved
                                  THEN cache_bodies \cup {t.envelope_hash}
                                  ELSE cache_bodies
            /\ tasks' = Take(tasks, t)
            /\ Deliver(BodyResult(t, TRUE))
       ELSE \* session.fetch_body(envelope_hash).await
            /\ t.online
            /\ \E ok \in BOOLEAN :
                  IF ok /\ t.cached
                  THEN /\ tasks' = Suspend(tasks, t, BodyOf(t.envelope_hash))
                       /\ UNCHANGED inbox
                  ELSE /\ tasks' = Take(tasks, t)
                       /\ Deliver(BodyResult(t, ok))
            /\ UNCHANGED cache_bodies
    /\ UNCHANGED << appVars, cache_folders, cache_msgs, netVars, last, intents,
                    acctVars, uiVars >>

\* cache.update_flags(..).await, resolving to Noop (app.rs:811-816, 919-924)
RunUpdateFlags(t) ==
    /\ t.kind = "update_flags"
    /\ tasks' = Take(tasks, t)
    /\ \E written \in BOOLEAN :
          cache_msgs' = IF written
                        THEN update_flags(t.envelope_hash, t.new_flags, t.pending_op)
                        ELSE cache_msgs
    /\ UNCHANGED << appVars, cache_folders, cache_bodies, inbox, netVars, last, intents, acctVars,
                    uiVars >>

\* session.set_flags(..).await (app.rs:826-838, 876-888)
RunSetFlags(t) ==
    /\ t.kind = "set_flags"
    /\ tasks' = Take(tasks, t)
    /\ \E ok \in BOOLEAN :
        Deliver([Result("FlagOpComplete", ok) EXCEPT
                    !.envelope_hash = t.envelope_hash,
                    !.new_flags = IF ok THEN t.new_flags ELSE 0,
                    !.prev_flags = t.prev_flags])
    /\ UNCHANGED << appVars, cacheVars, netVars, last, intents, acctVars,
                    uiVars >>

\* session.move_messages(..).await (app.rs:929-941, 985-997)
RunMoveMessages(t) ==
    /\ t.kind = "move_messages"
    /\ tasks' = Take(tasks, t)
    /\ \E ok \in BOOLEAN :
        Deliver([Result("MoveOpComplete", ok) EXCEPT
                    !.envelope_hash = t.envelope_hash,
                    !.removed = t.removed])
    /\ UNCHANGED << appVars, cacheVars, netVars, last, intents, acctVars,
                    uiVars >>

\* cache.clear_pending_op(..).await, resolving to Noop (app.rs:1020-1025)
RunClearPendingOp(t) ==
    /\ t.kind = "clear_pending_op"
    /\ tasks' = Take(tasks, t)
    /\ \E written \in BOOLEAN :
          cache_msgs' = IF written
                        THEN clear_pending_op(t.envelope_hash, t.new_flags)
                        ELSE cache_msgs
    /\ UNCHANGED << appVars, cache_folders, cache_bodies, inbox, netVars, last, intents, acctVars,
                    uiVars >>

\* cache.revert_pending_op(..).await, resolving to Noop (app.rs:1039-1044)
RunRevertPendingOp(t) ==
    /\ t.kind = "revert_pending_op"
    /\ tasks' = Take(tasks, t)
    /\ \E written \in BOOLEAN :
          cache_msgs' = IF written
                        THEN revert_pending_op(t.envelope_hash)
                        ELSE cache_msgs
    /\ UNCHANGED << appVars, cache_folders, cache_bodies, inbox, netVars, last, intents, acctVars,
                    uiVars >>

\* cache.remove_message(..).await, resolving to Noop (app.rs:1058-1063)
RunRemoveMessage(t) ==
    /\ t.kind = "remove_message"
    /\ tasks' = Take(tasks, t)
    /\ \E written \in BOOLEAN :
          cache_msgs' = IF written
                        THEN remove_message(t.envelope_hash)
                        ELSE cache_msgs
    /\ UNCHANGED << appVars, cache_folders, cache_bodies, inbox, netVars, last, intents, acctVars,
                    uiVars >>

\* ------------------------------------------------------------------ handlers
\* update() on a task result (src/src/app.rs).  Every handler takes one
\* result out of the inbox.

\* The folder at selected_folder, if both exist.
SelectedFolderOf(sel, fs) == IF IsSome(sel) THEN Get(fs, Unwrap(sel)) ELSE None

\* Message::CachedFoldersLoaded (app.rs:424-451)
CachedFoldersLoaded(r) ==
    /\ r.kind = "CachedFoldersLoaded"
    /\ inbox' = Take(inbox, r)
    /\ Handled("CachedFoldersLoaded")
    /\ IF r.ok /\ r.folders # <<>>
       THEN LET idx == Position(r.folders, "INBOX") IN
            /\ folders' = r.folders
            /\ folder_map' = rebuild_folder_map(r.folders)
            /\ status_message' = "folders (cached)"
            /\ selected_folder' = IF IsSome(idx) THEN idx ELSE selected_folder
            /\ IF IsSome(idx) /\ cache
               THEN /\ messages_offset' = 0
                    /\ tasks' = Spawn(tasks,
                          {LoadMessagesTask(r.folders[Unwrap(idx) + 1].mailbox_hash, 0)})
               ELSE UNCHANGED << messages_offset, tasks >>
       ELSE UNCHANGED << folders, folder_map, status_message, selected_folder,
                         messages_offset, tasks >>
    /\ UNCHANGED << setupVars, session, cache, messages, has_more_messages,
                    viewVars, is_syncing, cacheVars, netVars >>

\* A test that takes any non-empty page for a sign of more.
PageIsNotEmpty(count) == count > 0

\* count as u32 == DEFAULT_PAGE_SIZE (app.rs:457-458)
PageIsFull(count) == count = DEFAULT_PAGE_SIZE

\* Message::CachedMessagesLoaded (app.rs:456-473)
CachedMessagesLoaded(r) ==
    /\ r.kind = "CachedMessagesLoaded"
    /\ inbox' = Take(inbox, r)
    /\ Handled("CachedMessagesLoaded")
    /\ IF r.ok
       THEN /\ has_more_messages' = PageIsFull(Len(r.messages))
            /\ messages' = IF messages_offset = 0 THEN r.messages
                           ELSE messages \o r.messages
            /\ status_message' = IF messages' # <<>> THEN "messages"
                                 ELSE status_message
       ELSE UNCHANGED << has_more_messages, messages, status_message >>
    /\ UNCHANGED << setupVars, session, cache, folderVars, selected_folder,
                    messages_offset, viewVars, is_syncing, cacheVars, tasks,
                    netVars >>

\* Message::Connected (app.rs:478-526)
Connected(r) ==
    /\ r.kind = "Connected"
    /\ inbox' = Take(inbox, r)
    /\ Handled("Connected")
    /\ IF r.ok
       THEN /\ session' = TRUE
            /\ is_syncing' = IF folders = <<>> THEN TRUE ELSE is_syncing
            /\ status_message' = IF folders = <<>>
                                 THEN "Connected. Loading folders..."
                                 ELSE "folders (syncing...)"
            /\ tasks' = Spawn(tasks, {SyncFoldersTask})
            /\ UNCHANGED << show_setup_dialog, password_only_mode, setup_error >>
       ELSE /\ is_syncing' = FALSE
            /\ IF folders = <<>> /\ ~show_setup_dialog
               THEN /\ show_setup_dialog' = TRUE
                    /\ password_only_mode' = IF config THEN FALSE
                                             ELSE password_only_mode
                    /\ setup_error' = Some("Connection failed")
                    /\ status_message' = "Connection failed"
               ELSE /\ status_message' = IF folders = <<>>
                                         THEN "Connection failed"
                                         ELSE "folders (offline)"
                    /\ UNCHANGED << show_setup_dialog, password_only_mode,
                                    setup_error >>
            /\ UNCHANGED << session, tasks >>
    /\ UNCHANGED << config, cache, folderVars, selected_folder, listVars,
                    viewVars, cacheVars, netVars >>

\* Message::SyncFoldersComplete (app.rs:531-580)
SyncFoldersComplete(r) ==
    /\ r.kind = "SyncFoldersComplete"
    /\ inbox' = Take(inbox, r)
    /\ Handled("SyncFoldersComplete")
    /\ is_syncing' = FALSE
    /\ IF r.ok
       THEN LET idx == Position(r.folders, "INBOX")
                sel == IF selected_folder = None /\ IsSome(idx) THEN idx
                       ELSE selected_folder
                folder == SelectedFolderOf(sel, r.folders)
            IN
            /\ folders' = r.folders
            /\ folder_map' = rebuild_folder_map(r.folders)
            /\ status_message' = "folders"
            /\ selected_folder' = sel
            /\ tasks' = IF IsSome(folder) /\ session
                        THEN Spawn(tasks, {SyncMessagesTask(Unwrap(folder).mailbox_hash)})
                        ELSE tasks
       ELSE /\ status_message' = IF folders = <<>> THEN "Failed to load folders"
                                 ELSE "folders (sync failed)"
            /\ UNCHANGED << folders, folder_map, selected_folder, tasks >>
    /\ UNCHANGED << setupVars, session, cache, listVars, viewVars, cacheVars,
                    netVars >>

\* Message::SyncMessagesComplete (app.rs:585-609)
SyncMessagesComplete(r) ==
    /\ r.kind = "SyncMessagesComplete"
    /\ inbox' = Take(inbox, r)
    /\ Handled("SyncMessagesComplete")
    /\ is_syncing' = FALSE
    /\ IF r.ok
       THEN LET folder == SelectedFolderOf(selected_folder, folders) IN
            IF IsSome(folder) /\ cache
            THEN /\ messages_offset' = 0
                 /\ tasks' = Spawn(tasks, {LoadMessagesTask(Unwrap(folder).mailbox_hash, 0)})
                 /\ UNCHANGED status_message
            ELSE /\ status_message' = "messages (synced)"
                 /\ UNCHANGED << messages_offset, tasks >>
       ELSE /\ status_message' = "Sync failed"
            /\ UNCHANGED << messages_offset, tasks >>
    /\ UNCHANGED << setupVars, session, cache, folderVars, selected_folder,
                    messages, has_more_messages, viewVars, cacheVars, netVars >>

\* Message::BodyLoaded (app.rs:784-792)
BodyLoaded(r) ==
    /\ r.kind = "BodyLoaded"
    /\ inbox' = Take(inbox, r)
    /\ Handled("BodyLoaded")
    /\ preview_body' = IF r.ok THEN r.body ELSE << "Failed to load message body" >>
    /\ status_message' = IF r.ok THEN "Ready" ELSE "Error loading message"
    /\ UNCHANGED << setupVars, session, cache, folderVars, selected_folder,
                    listVars, selected_message, is_syncing, cacheVars, tasks,
                    netVars >>

\* Message::FlagOpComplete (app.rs:1012-1048)
FlagOpComplete(r) ==
    /\ r.kind = "FlagOpComplete"
    /\ inbox' = Take(inbox, r)
    /\ Handled("FlagOpComplete")
    /\ IF r.ok
       THEN /\ tasks' = IF cache
                        THEN Spawn(tasks, {ClearPendingTask(r.envelope_hash, r.new_flags)})
                        ELSE tasks
            /\ UNCHANGED << status_message, messages >>
       ELSE /\ status_message' = "Flag update failed"
            \* iter_mut().find(..): the first message of that envelope
            /\ messages' =
                 [k \in 1..Len(messages) |->
                    IF /\ messages[k].envelope_hash = r.envelope_hash
                       /\ \A j \in 1..(k - 1) :
                              messages[j].envelope_hash # r.envelope_hash
                    THEN [messages[k] EXCEPT !.is_read = ~messages[k].is_read]
                    ELSE messages[k]]
            /\ tasks' = IF cache
                        THEN Spawn(tasks, {RevertPendingTask(r.envelope_hash)})
                        ELSE tasks
    /\ UNCHANGED << setupVars, session, cache, folderVars, selected_folder,
                    messages_offset, has_more_messages, viewVars, is_syncing,
                    cacheVars, netVars >>

\* Message::MoveOpComplete (app.rs:1050-1073)
MoveOpComplete(r) ==
    /\ r.kind = "MoveOpComplete"
    /\ inbox' = Take(inbox, r)
    /\ Handled("MoveOpComplete")
    /\ IF r.ok
       THEN /\ tasks' = IF cache
                        THEN Spawn(tasks, {RemoveMessageTask(r.envelope_hash)})
                        ELSE tasks
            /\ UNCHANGED status_message
       ELSE /\ status_message' = "Move failed"
            /\ UNCHANGED tasks
    /\ UNCHANGED << setupVars, session, cache, folderVars, selected_folder,
                    listVars, viewVars, is_syncing, cacheVars, netVars >>

\* ------------------------------------------------------------------ intents
\* update() on a message of the user interface.  An index names a row the
\* view shows, or the row just past the list (a click on a row that is gone).

\* A reset that leaves the open message and its preview in place.
ResetListOnly ==
    /\ messages' = <<>>
    /\ messages_offset' = 0
    /\ has_more_messages' = FALSE
    /\ UNCHANGED << selected_message, preview_body >>

\* What SelectFolder clears before it loads anything (app.rs:645-650).
ResetView ==
    /\ messages' = <<>>
    /\ selected_message' = None
    /\ preview_body' = <<>>
    /\ messages_offset' = 0
    /\ has_more_messages' = FALSE

\* Message::SelectFolder (app.rs:644-692)
SelectFolder(index) ==
    /\ Intent("SelectFolder")
    /\ selected_folder' = Some(index)
    /\ ResetView
    /\ LET folder == Get(folders, index) IN
       IF IsSome(folder)
       THEN LET mailbox_hash == Unwrap(folder).mailbox_hash IN
            /\ tasks' = Spawn(tasks,
                  (IF cache THEN {LoadMessagesTask(mailbox_hash, 0)} ELSE {})
                  \cup (IF session THEN {SyncMessagesTask(mailbox_hash)} ELSE {}))
            /\ is_syncing' = IF session THEN TRUE ELSE is_syncing
            /\ status_message' = IF session THEN "Loading folder..."
                                 ELSE status_message
       ELSE UNCHANGED << tasks, is_syncing, status_message >>
    /\ UNCHANGED << setupVars, session, cache, folderVars, cacheVars, inbox,
                    netVars >>

\* Message::LoadMoreMessages (app.rs:708-727)
LoadMoreMessages ==
    /\ Intent("LoadMoreMessages")
    /\ messages_offset' = messages_offset + DEFAULT_PAGE_SIZE
    /\ LET folder == SelectedFolderOf(selected_folder, folders) IN
       tasks' = IF IsSome(folder) /\ cache
                THEN Spawn(tasks, {LoadMessagesTask(Unwrap(folder).mailbox_hash,
                                                    messages_offset')})
                ELSE tasks
    /\ UNCHANGED << setupVars, session, cache, folderVars, selected_folder,
                    messages, has_more_messages, viewVars, is_syncing,
                    status_message, cacheVars, inbox, netVars >>

\* Message::SelectMessage (app.rs:732-782)
SelectMessage(index) ==
    /\ Intent("SelectMessage")
    /\ selected_message' = Some(index)
    /\ LET msg == Get(messages, index) IN
       IF IsSome(msg) /\ (cache \/ session)
       THEN /\ status_message' = "Loading message..."
            /\ tasks' = Spawn(tasks, {BodyTask(Unwrap(msg).envelope_hash)})
       ELSE UNCHANGED << status_message, tasks >>
    /\ UNCHANGED << setupVars, session, cache, folderVars, selected_folder,
                    listVars, preview_body, is_syncing, cacheVars, inbox,
                    netVars >>

\* Message::Refresh (app.rs:1078-1094)
Refresh ==
    /\ Intent("Refresh")
    /\ IF session
       THEN /\ is_syncing' = TRUE
            /\ status_message' = "Refreshing..."
            /\ tasks' = Spawn(tasks, {SyncFoldersTask})
       ELSE UNCHANGED << is_syncing, status_message, tasks >>
    /\ UNCHANGED << setupVars, session, cache, folderVars, selected_folder,
                    listVars, viewVars, cacheVars, inbox, netVars >>

\* The two tasks of a flag toggle (app.rs:806-843, 856-893).
ToggleTasks(msg, new_flags, prev_flags, op) ==
    (IF cache THEN {UpdateFlagsTask(msg.envelope_hash, new_flags, op)} ELSE {})
    \cup (IF session
          THEN {SetFlagsTask(msg.envelope_hash, msg.mailbox_hash, new_flags, prev_flags)}
          ELSE {})

\* Message::ToggleRead (app.rs:797-845)
ToggleRead(index) ==
    /\ Intent("ToggleRead")
    /\ LET got == Get(messages, index) IN
       IF IsSome(got)
       THEN LET msg == Unwrap(got)
                new_read == ~msg.is_read
                new_flags == flags_to_u8(new_read, msg.is_starred)
                prev_flags == flags_to_u8(msg.is_read, msg.is_starred)
                pending_op == IF new_read THEN "set_seen" ELSE "unset_seen"
            IN
            /\ messages' = [messages EXCEPT ![index + 1].is_read = new_read]
            /\ tasks' = Spawn(tasks, ToggleTasks(msg, new_flags, prev_flags, pending_op))
       ELSE UNCHANGED << messages, tasks >>
    /\ UNCHANGED << setupVars, session, cache, folderVars, selected_folder,
                    messages_offset, has_more_messages, viewVars, is_syncing,
                    status_message, cacheVars, inbox, netVars >>

\* Message::ToggleStar (app.rs:847-895)
ToggleStar(index) ==
    /\ Intent("ToggleStar")
    /\ LET got == Get(messages, index) IN
       IF IsSome(got)
       THEN LET msg == Unwrap(got)
                new_starred == ~msg.is_starred
                new_flags == flags_to_u8(msg.is_read, new_starred)
                prev_flags == flags_to_u8(msg.is_read, msg.is_starred)
                pending_op == IF new_starred THEN "set_flagged" ELSE "unset_flagged"
            IN
            /\ messages' = [messages EXCEPT ![index + 1].is_starred = new_starred]
            /\ tasks' = Spawn(tasks, ToggleTasks(msg, new_flags, prev_flags, pending_op))
       ELSE UNCHANGED << messages, tasks >>
    /\ UNCHANGED << setupVars, session, cache, folderVars, selected_folder,
                    messages_offset, has_more_messages, viewVars, is_syncing,
                    status_message, cacheVars, inbox, netVars >>

\* format!("move:{}", hash)
MoveTag(hash) ==
    CASE hash = 1 -> "move:1" [] hash = 2 -> "move:2" [] hash = 3 -> "move:3"
      [] OTHER -> "move:?"

\* The optimistic removal and the two tasks of a move
\* (app.rs:899-947 for Trash, 955-1003 for Archive).
OptimisticMove(index, dest) ==
    LET got == Get(messages, index) IN
    IF IsSome(got)
    THEN LET msg == Unwrap(got)
             rest == Remove(messages, index)
         IN
         /\ messages' = rest
         /\ selected_message' =
              IF IsSome(selected_message)
              THEN IF Unwrap(selected_message) >= Len(rest) /\ rest # <<>>
                   THEN Some(Len(rest) - 1)
                   ELSE IF rest = <<>> THEN None ELSE selected_message
              ELSE selected_message
         /\ preview_body' = IF IsSome(selected_message) /\ rest = <<>>
                            THEN <<>> ELSE preview_body
         /\ tasks' = Spawn(tasks,
              (IF cache
               THEN {UpdateFlagsTask(msg.envelope_hash, flags_to_u8(TRUE, FALSE),
                                     MoveTag(dest))}
               ELSE {})
              \cup (IF session
                    THEN {MoveTask(msg.envelope_hash, msg.mailbox_hash, dest,
                                   msg, index)}
                    ELSE {}))
    ELSE UNCHANGED << messages, selected_message, preview_body, tasks >>

\* The folder a move goes to: folder_map.get(name).or_else(INBOX.name)
\* (app.rs:898 and 954).
MoveTarget(name) ==
    OrElse(MapGet(folder_map, name),
           MapGet(folder_map, IF name = "Trash" THEN "INBOX.Trash"
                              ELSE "INBOX.Archive"))

\* A move that skips the lookup and moves to mailbox 0 when the folder map
\* has no Trash folder.
TrashUnresolved(index) ==
    /\ Intent("TrashMessage")
    /\ LET trash_hash == MoveTarget("Trash") IN
       /\ OptimisticMove(index, IF IsSome(trash_hash) THEN Unwrap(trash_hash)
                                ELSE 0)
       /\ UNCHANGED status_message
    /\ UNCHANGED << setupVars, session, cache, folderVars, selected_folder,
                    messages_offset, has_more_messages, is_syncing, cacheVars,
                    inbox, netVars >>

\* Message::TrashMessage (app.rs:897-951)
TrashMessage(index) ==
    /\ Intent("TrashMessage")
    /\ LET trash_hash == OrElse(MapGet(folder_map, "Trash"),
                                MapGet(folder_map, "INBOX.Trash")) IN
       IF IsSome(trash_hash)
       THEN /\ OptimisticMove(index, Unwrap(trash_hash))
            /\ UNCHANGED status_message
       ELSE /\ status_message' = "Trash folder not found"
            /\ UNCHANGED << messages, selected_message, preview_body, tasks >>
    /\ UNCHANGED << setupVars, session, cache, folderVars, selected_folder,
                    messages_offset, has_more_messages, is_syncing, cacheVars,
                    inbox, netVars >>

\* Message::ArchiveMessage (app.rs:953-1007)
ArchiveMessage(index) ==
    /\ Intent("ArchiveMessage")
    /\ LET archive_hash == OrElse(MapGet(folder_map, "Archive"),
                                  MapGet(folder_map, "INBOX.Archive")) IN
       IF IsSome(archive_hash)
       THEN /\ OptimisticMove(index, Unwrap(archive_hash))
            /\ UNCHANGED status_message
       ELSE /\ status_message' = "Archive folder not found"
            /\ UNCHANGED << messages, selected_message, preview_body, tasks >>
    /\ UNCHANGED << setupVars, session, cache, folderVars, selected_folder,
                    messages_offset, has_more_messages, is_syncing, cacheVars,
                    inbox, netVars >>

\* The keyring entry of an account's IMAP password, keyed by its username
\* and server (setup.rs:148, accounts.rs:113), and of its SMTP password,
\* keyed by its id (setup.rs:115, accounts.rs:116).  The accounts of the
\* model have pairwise distinct logins: the login stands under the id, and
\* the one login of the program without a registry (app.rs:360) under 0.
ImapPassword(id) == << "imap", id >>
SmtpPassword(id) == << "smtp", id >>

\* Message::SetupSubmit (app.rs:336-406).  The dialog's fields are seen
\* through what the handler tests: the required fields are filled, the port
\* parses, and the config file can be saved.  Past the two validations the
\* handler stores the password in the keyring before it saves the config
\* (app.rs:359-372): the keyring takes it, or refuses and the password goes
\* into the config file (PasswordBackend::Plaintext).
SetupSubmit(filled, port_ok, saved) ==
    /\ show_setup_dialog
    /\ intents < MaxIntents
    /\ intents' = intents + 1
    /\ last' = "SetupSubmit"
    /\ IF filled /\ port_ok
       THEN keyring' \in { keyring, keyring \cup {ImapPassword(0)} }
       ELSE UNCHANGED keyring
    /\ UNCHANGED << accounts, active_account, setup_model, cache_accounts,
                    connects_started, uiVars >>
    /\ IF ~filled \/ ~port_ok \/ ~saved
       THEN /\ setup_error' = Some(IF ~filled THEN "All fields are required"
                                   ELSE IF ~port_ok THEN "Port must be a number"
                                   ELSE "Failed to save config")
            /\ UNCHANGED << config, show_setup_dialog, is_syncing,
                            status_message, tasks >>
       ELSE /\ config' = TRUE
            /\ show_setup_dialog' = FALSE
            /\ setup_error' = None
            /\ is_syncing' = TRUE
            /\ status_message' = "Connecting..."
            /\ tasks' = Spawn(tasks, {ConnectTask})
    /\ UNCHANGED << password_only_mode, session, cache, folderVars,
                    selected_folder, listVars, viewVars, cacheVars, inbox,
                    netVars >>

\* Message::SetupCancel (app.rs:411-419)
SetupCancel ==
    /\ show_setup_dialog
    /\ Intent("SetupCancel")
    /\ show_setup_dialog' = FALSE
    /\ status_message' = IF folders = <<>> THEN "Not connected"
                         ELSE "folders (offline)"
    /\ UNCHANGED << config, password_only_mode, setup_error, session, cache,
                    folderVars, selected_folder, listVars, viewVars, is_syncing,
                    cacheVars, tasks, inbox, netVars >>

\* ------------------------------------------------------------------ next

\* The user interface offers a row for every folder and every message, and
\* the row past the end stands for a click on a row that is gone.
FolderRows == 0..Len(folders)
MessageRows == 0..Len(messages)

\* Any spawned task may run next; any delivered result may be handled next.
Spawned == BagToSet(tasks)
Delivered == BagToSet(inbox)

\* The "Load more" row is shown while has_more_messages (app.rs:273).
Next ==
    \/ \E t \in Spawned : RunLoadFolders(t)
    \/ \E t \in Spawned : RunConnect(t)
    \/ \E t \in Spawned : RunSyncFolders(t)
    \/ \E t \in Spawned : RunLoadMessages(t)
    \/ \E t \in Spawned : RunSyncMessages(t)
    \/ \E t \in Spawned : RunBody(t)
    \/ \E t \in Spawned : RunUpdateFlags(t)
    \/ \E t \in Spawned : RunSetFlags(t)
    \/ \E t \in Spawned : RunMoveMessages(t)
    \/ \E t \in Spawned : RunClearPendingOp(t)
    \/ \E t \in Spawned : RunRevertPendingOp(t)
    \/ \E t \in Spawned : RunRemoveMessage(t)
    \/ \E r \in Delivered : CachedFoldersLoaded(r)
    \/ \E r \in Delivered : CachedMessagesLoaded(r)
    \/ \E r \in Delivered : Connected(r)
    \/ \E r \in Delivered : SyncFoldersComplete(r)
    \/ \E r \in Delivered : SyncMessagesComplete(r)
    \/ \E r \in Delivered : BodyLoaded(r)
    \/ \E r \in Delivered : FlagOpComplete(r)
    \/ \E r \in Delivered : MoveOpComplete(r)
    \/ \E index \in FolderRows : SelectFolder(index)
    \/ has_more_messages /\ LoadMoreMessages
    \/ \E index \in MessageRows : SelectMessage(index)
    \/ \E index \in MessageRows : ToggleRead(index)
    \/ \E index \in MessageRows : ToggleStar(index)
    \/ \E index \in MessageRows : TrashMessage(index)
    \/ \E index \in MessageRows : ArchiveMessage(index)
    \/ Refresh
    \/ \E filled, port_ok, saved \in BOOLEAN : SetupSubmit(filled, port_ok, saved)
    \/ SetupCancel

Spec == Init /\ [][Next]_vars


\* ------------------------------------------------------------------ scenarios
\* The full machine above is explored piecewise: each scenario starts in a
\* state the machine reaches after start-up and takes the actions of one
\* part of the program.

\* The state once start-up has connected, synced the folder list fs, and
\* shown the first page of INBOX from the cache; rows is what the cache
\* holds and fetched what the server returned for each mailbox.
Loaded(fs, rows, fetched) ==
    /\ config = TRUE
    /\ session = TRUE
    /\ cache = TRUE
    /\ folders = fs
    /\ folder_map = rebuild_folder_map(fs)
    /\ selected_folder = Position(fs, "INBOX")
    /\ cache_folders = fs
    /\ cache_msgs = rows
    /\ cache_bodies = {}
    /\ messages = [k \in 1..Min(DEFAULT_PAGE_SIZE, Len(rows[1])) |->
                      SummaryOf(rows[1][k])]
    /\ selected_message = None
    /\ messages_offset = 0
    /\ has_more_messages = (Len(messages) = DEFAULT_PAGE_SIZE)
    /\ preview_body = <<>>
    /\ is_syncing = FALSE
    /\ status_message = "messages"
    /\ show_setup_dialog = FALSE
    /\ password_only_mode = FALSE
    /\ setup_error = None
    /\ tasks = EmptyBag
    /\ inbox = EmptyBag
    /\ net_folders = Some(fs)
    /\ net_msgs = fetched
    /\ last = "CachedMessagesLoaded"
    /\ intents = 0
    /\ NoRegistry
    /\ FreshView

\* Folder lists that hold INBOX.
InboxLists == { fs \in FolderLists : IsSome(Position(fs, "INBOX")) }

\* Flag mutations and moves on a loaded INBOX of DEFAULT_PAGE_SIZE messages;
\* the first message has been read or starred, or not, by earlier toggles.
InitMutate ==
    \E fs \in InboxLists : \E r, s \in BOOLEAN :
        LET inbox_msgs == ServerMessages(1, DEFAULT_PAGE_SIZE)
            shown == [inbox_msgs EXCEPT ![1].is_read = r, ![1].is_starred = s]
        IN Loaded(fs,
                  [mh \in Mailboxes |->
                      IF mh = 1 THEN [k \in 1..Len(shown) |-> RowOf(shown[k])]
                      ELSE <<>>],
                  [mh \in Mailboxes |->
                      IF mh = 1 THEN Some(inbox_msgs) ELSE None])

NextMutate ==
    \/ \E t \in Spawned : RunUpdateFlags(t)
    \/ \E t \in Spawned : RunSetFlags(t)
    \/ \E t \in Spawned : RunMoveMessages(t)
    \/ \E t \in Spawned : RunClearPendingOp(t)
    \/ \E t \in Spawned : RunRevertPendingOp(t)
    \/ \E t \in Spawned : RunRemoveMessage(t)
    \/ \E r \in Delivered : FlagOpComplete(r)
    \/ \E r \in Delivered : MoveOpComplete(r)
    \/ \E index \in MessageRows : ToggleRead(index)
    \/ \E index \in MessageRows : ToggleStar(index)
    \/ \E index \in MessageRows : TrashMessage(index)
    \/ \E index \in MessageRows : ArchiveMessage(index)

SpecMutate == InitMutate /\ [][NextMutate]_vars


\* ------------------------------------------------------------------ claims: mutations

\* The flag byte a message of the list shows.
ShownFlags(m) == flags_to_u8(m.is_read, m.is_starred)

\* C1: when the server refuses the flag change of a toggle (the only user
\* action of the run), the step that handles FlagOpComplete(Err) leaves the
\* message with the read and starred values it had before the toggle, and
\* issues the revert of the cache's pending marker.
C1_FailedToggleRestoresFlags ==
    [][\A r \in Delivered :
          (intents = 1 /\ ~r.ok /\ FlagOpComplete(r)) =>
              /\ \A k \in 1..Len(messages') :
                    messages'[k].envelope_hash = r.envelope_hash =>
                        ShownFlags(messages'[k]) = r.prev_flags
              /\ BagIn(RevertPendingTask(r.envelope_hash), tasks')]_vars

\* Server operations of envelope e that are under way: spawned and not yet
\* run, or run with the completion not yet handled.
Outstanding(e) ==
    LET ts == { t \in Spawned : /\ t.kind \in {"set_flags", "move_messages"}
                                /\ t.envelope_hash = e }
        rs == { r \in Delivered : /\ r.kind \in {"FlagOpComplete", "MoveOpComplete"}
                                  /\ r.envelope_hash = e }
    IN  BagCardinality([t \in ts |-> tasks[t]])
        + BagCardinality([r \in rs |-> inbox[r]])

\* C2: at every moment at most one optimistic mutation (flag toggle or move)
\* is outstanding for an envelope.
C2_OneMutationPerEnvelope ==
    \A k \in 1..DEFAULT_PAGE_SIZE : Outstanding(EnvelopeOf(1, k)) <= 1

\* C5: when the server refuses the move of a trash or archive (the only user
\* action of the run), the step that handles MoveOpComplete(Err) puts the
\* removed message back at the index it was taken from and sets the failure
\* status.
C5_FailedMoveReinserts ==
    [][\A r \in Delivered :
          (intents = 1 /\ ~r.ok /\ MoveOpComplete(r)) =>
              /\ Get(messages', r.removed[2]) = Some(r.removed[1])
              /\ status_message' = "Move failed"]_vars

\* C8: after a flag toggle that the server accepted (the only user action
\* of the run), once the optimistic cache write, the server operation and
\* the clearing of the pending marker have all finished, in whatever order
\* they ran, the cache row of every listed message holds the flags the list
\* shows as confirmed flags and carries no pending marker.
C8_SettledToggleRow ==
    ( /\ intents = 1
      /\ last = "FlagOpComplete"
      /\ status_message # "Flag update failed"
      /\ Quiescent )
    => \A k \in 1..Len(messages) :
          LET row == CacheRow(messages[k].envelope_hash) IN
          /\ IsSome(row)
          /\ Unwrap(row).pending_op = ""
          /\ Unwrap(row).flags_local = ShownFlags(messages[k])
          /\ Unwrap(row).flags_server = ShownFlags(messages[k])


\* ------------------------------------------------------------------ scenario: browsing

\* Row counts of a mailbox in the cache when browsing starts: a short page,
\* two full pages, two full pages and a row.
BrowseRowCounts == {1, 2 * DEFAULT_PAGE_SIZE, MaxRows}

\* Folder selection, paging and message selection on a loaded account whose
\* cache holds the same number of rows for every mailbox.
InitBrowse ==
    \E fs \in InboxLists : \E n \in BrowseRowCounts :
        Loaded(fs,
               [mh \in Mailboxes |->
                   [k \in 1..n |-> RowOf(ServerMessages(mh, n)[k])]],
               [mh \in Mailboxes |->
                   IF mh = 1 THEN Some(ServerMessages(1, n)) ELSE None])

NextBrowse ==
    \/ \E t \in Spawned : RunLoadMessages(t)
    \/ \E t \in Spawned : RunSyncMessages(t)
    \/ \E t \in Spawned : RunBody(t)
    \/ \E r \in Delivered : CachedMessagesLoaded(r)
    \/ \E r \in Delivered : SyncMessagesComplete(r)
    \/ \E r \in Delivered : BodyLoaded(r)
    \/ \E index \in FolderRows : SelectFolder(index)
    \/ has_more_messages /\ LoadMoreMessages
    \/ \E index \in MessageRows : SelectMessage(index)

SpecBrowse == InitBrowse /\ [][NextBrowse]_vars


\* ------------------------------------------------------------------ scenario: paging

\* Browsing the cache while the network is slow: the syncs that SelectFolder
\* spawns stay spawned, the cache reads and the body loads run.
NextPaging ==
    \/ \E t \in Spawned : RunLoadMessages(t)
    \/ \E t \in Spawned : RunBody(t)
    \/ \E r \in Delivered : CachedMessagesLoaded(r)
    \/ \E r \in Delivered : BodyLoaded(r)
    \/ \E index \in FolderRows : SelectFolder(index)
    \/ has_more_messages /\ LoadMoreMessages
    \/ \E index \in MessageRows : SelectMessage(index)

SpecPaging == InitBrowse /\ [][NextPaging]_vars

\* ------------------------------------------------------------------ claims: browsing

\* The mailbox of the selected folder, 0 when no folder is selected.
SelectedMailbox ==
    LET folder == SelectedFolderOf(selected_folder, folders) IN
    IF IsSome(folder) THEN Unwrap(folder).mailbox_hash ELSE 0

\* The first page of a fetched message list.
FirstPage(msgs) == SubSeq(msgs, 1, Min(DEFAULT_PAGE_SIZE, Len(msgs)))

\* C3: after a folder selection (the only user action of the run, so the
\* list is still at offset 0) with a cache and a session, once the initial
\* cache read, the fetch-and-save and the follow-up cache read have all
\* been delivered, in whatever order, the list shown is the first page of
\* what the fetch persisted.
C3_SelectSettlesOnFetched ==
    ( /\ intents = 1
      /\ messages_offset = 0
      /\ Quiescent
      /\ SelectedMailbox # 0
      /\ IsSome(net_msgs[SelectedMailbox]) )
    => messages = FirstPage(Unwrap(net_msgs[SelectedMailbox]))

\* C4: a CachedMessagesLoaded result read for folder F that update() takes
\* while another folder is selected is dropped: the list, its offset and
\* has_more_messages stay as they are.
C4_StaleResultDropped ==
    [][\A r \in Delivered :
          (CachedMessagesLoaded(r) /\ r.mailbox_hash # SelectedMailbox)
              => UNCHANGED listVars]_vars

\* C9 as stated: after a load-more page, has_more_messages is false when
\* exactly one page of rows remained at the offset, and true when more than
\* one page remained.
C9_ExactPageEndsPaging ==
    [][\A r \in Delivered :
          (CachedMessagesLoaded(r) /\ r.ok /\ r.offset > 0) =>
              /\ r.remaining = DEFAULT_PAGE_SIZE => ~has_more_messages'
              /\ r.remaining > DEFAULT_PAGE_SIZE => has_more_messages']_vars

\* C9 amended: after a load-more page, has_more_messages is true exactly
\* when at least one page of rows remained at the offset (the page came
\* back full), so also when exactly one page remained; it is false only
\* when fewer rows than a page remained.
C9_FullPageKeepsPaging ==
    [][\A r \in Delivered :
          (CachedMessagesLoaded(r) /\ r.ok /\ r.offset > 0) =>
              (has_more_messages' <=> r.remaining >= DEFAULT_PAGE_SIZE)]_vars

\* A load-more page has been appended when exactly one page remained, and
\* the list still offers more.
C9_Witness ==
    /\ last = "CachedMessagesLoaded"
    /\ messages_offset = DEFAULT_PAGE_SIZE
    /\ Len(cache_msgs[SelectedMailbox]) = 2 * DEFAULT_PAGE_SIZE
    /\ Len(messages) = 2 * DEFAULT_PAGE_SIZE
    /\ has_more_messages

\* C10: the step that handles SelectFolder leaves the offset at 0,
\* has_more_messages false, the list empty, no message selected and the
\* preview body empty.
C10_SelectFolderResets ==
    last = "SelectFolder" =>
        /\ messages_offset = 0
        /\ ~has_more_messages
        /\ messages = <<>>
        /\ selected_message = None
        /\ preview_body = <<>>

\* A folder was selected while a message was open with its body shown: the
\* body is in the cache because the preview loaded it.
C10_Witness ==
    /\ last = "SelectFolder"
    /\ intents = 2
    /\ cache_bodies # {}
    /\ Quiescent


\* ------------------------------------------------------------------ scenario: start-up

\* Start-up with a resolved config, with or without a cache: the cached
\* folder load races the connect and the folder sync; Refresh syncs again.
\* The message loads these handlers spawn stay spawned: the scenario follows
\* the folder list only, and starts without cached message rows, which none
\* of its handlers reads.
InitStartup == Init /\ config /\ cache_msgs = [mh \in Mailboxes |-> <<>>]

NextStartup ==
    \/ \E t \in Spawned : RunLoadFolders(t)
    \/ \E t \in Spawned : RunConnect(t)
    \/ \E t \in Spawned : RunSyncFolders(t)
    \/ \E r \in Delivered : CachedFoldersLoaded(r)
    \/ \E r \in Delivered : Connected(r)
    \/ \E r \in Delivered : SyncFoldersComplete(r)
    \/ Refresh

SpecStartup == InitStartup /\ [][NextStartup]_vars

\* ------------------------------------------------------------------ claims: folders

\* The path -> mailbox hash pairs of a folder list.
PathMap(fs) == { << fs[i].path, fs[i].mailbox_hash >> : i \in 1..Len(fs) }

\* C6: the step that handles a successful SyncFoldersComplete leaves
\* folder_map with exactly the path -> hash pairs of that sync's folder list:
\* no entry of an earlier list stays behind.
C6_FolderMapIsSyncResult ==
    [][\A r \in Delivered :
          (SyncFoldersComplete(r) /\ r.ok) => folder_map' = PathMap(r.folders)]_vars

\* A successful folder sync has been handled after the user asked for a
\* refresh, and the map has the two entries of its list.
C6_Witness ==
    /\ last = "SyncFoldersComplete"
    /\ status_message = "folders"
    /\ intents > 0
    /\ folders = << Folder("Archive", 3), Folder("INBOX", 1) >>
    /\ folder_map = { << "Archive", 3 >>, << "INBOX", 1 >> }

\* The cached folder load and the folder sync of start-up have both run and
\* both results have been handled.
FolderLoadsHandled ==
    /\ \A t \in Spawned : t.kind \notin {"load_folders", "connect", "sync_folders"}
    /\ \A r \in Delivered :
          r.kind \notin {"CachedFoldersLoaded", "Connected", "SyncFoldersComplete"}

\* C7: at start-up with a cache (no user action yet), once the cached
\* folder load and the successful folder sync have both been handled, in
\* whichever order they arrived, folders and folder_map are those of the
\* network result.
C7_NetworkFoldersWin ==
    ( /\ intents = 0
      /\ cache
      /\ FolderLoadsHandled
      /\ IsSome(net_folders) )
    => /\ folders = Unwrap(net_folders)
       /\ folder_map = PathMap(Unwrap(net_folders))


\* ------------------------------------------------------------------ scenario: no cache

\* Start-up with a resolved config when MessageCache::open() failed
\* (app.rs:119-129): no cache task is ever spawned, the connect, the folder
\* sync and the message syncs run against the network alone.
InitNoCache == Init /\ config /\ ~cache

NextNoCache ==
    \/ \E t \in Spawned : RunConnect(t)
    \/ \E t \in Spawned : RunSyncFolders(t)
    \/ \E t \in Spawned : RunSyncMessages(t)
    \/ \E r \in Delivered : Connected(r)
    \/ \E r \in Delivered : SyncFoldersComplete(r)
    \/ \E r \in Delivered : SyncMessagesComplete(r)
    \/ \E index \in FolderRows : SelectFolder(index)

SpecNoCache == InitNoCache /\ [][NextNoCache]_vars

\* C11: with no cache handle and a live session, once a folder has been
\* selected and every fetch has been delivered, the last one with success,
\* the message list is the list the network fetch returned for the
\* selected folder.
C11_NoCacheListIsFetched ==
    ( /\ ~cache
      /\ session
      /\ last = "SyncMessagesComplete"
      /\ status_message = "messages (synced)"
      /\ intents >= 1
      /\ Quiescent
      /\ SelectedMailbox # 0
      /\ IsSome(net_msgs[SelectedMailbox]) )
    => messages = Unwrap(net_msgs[SelectedMailbox])


\* ------------------------------------------------------------------ claims: unresolved move target

\* Moves alone on the loaded INBOX of InitMutate: the Trash and Archive
\* requests, the cache and network tasks of a move, and its completion.
NextMove ==
    \/ \E t \in Spawned : RunUpdateFlags(t)
    \/ \E t \in Spawned : RunMoveMessages(t)
    \/ \E t \in Spawned : RunRemoveMessage(t)
    \/ \E r \in Delivered : MoveOpComplete(r)
    \/ \E index \in MessageRows : TrashMessage(index)
    \/ \E index \in MessageRows : ArchiveMessage(index)

SpecMove == InitMutate /\ [][NextMove]_vars

\* What a refused move leaves alone: everything but the status line.
RefusedMoveKeeps ==
    UNCHANGED << messages, selected_message, preview_body, messages_offset,
                 has_more_messages, selected_folder, folderVars, cacheVars,
                 tasks, inbox, netVars >>

\* C12: TrashMessage (ArchiveMessage) while the folder map resolves no Trash
\* (Archive) folder sets the status to the "folder not found" error and
\* leaves the message list, the selection, the preview, the cache and the
\* set of spawned tasks as they were: no cache write and no remote move is
\* dispatched.
C12_UnresolvedMoveOnlyReports ==
    [][\A index \in MessageRows :
          /\ (TrashMessage(index) /\ ~IsSome(MoveTarget("Trash")))
                => (status_message' = "Trash folder not found"
                    /\ RefusedMoveKeeps)
          /\ (ArchiveMessage(index) /\ ~IsSome(MoveTarget("Archive")))
                => (status_message' = "Archive folder not found"
                    /\ RefusedMoveKeeps)]_vars

\* A Trash request was refused while the list held a full page.
C12_Witness ==
    /\ last = "TrashMessage"
    /\ status_message = "Trash folder not found"
    /\ ~IsSome(MoveTarget("Trash"))
    /\ Len(messages) = DEFAULT_PAGE_SIZE
    /\ tasks = EmptyBag


\* ------------------------------------------------------------------ scenario: offline start

\* Start-up with a resolved config and a cache: the cached folder list and
\* the cached first page of INBOX are read while the connect runs; no user
\* message is taken.
InitOffline == Init /\ config /\ cache

NextOffline ==
    \/ \E t \in Spawned : RunLoadFolders(t)
    \/ \E t \in Spawned : RunConnect(t)
    \/ \E t \in Spawned : RunLoadMessages(t)
    \/ \E r \in Delivered : CachedFoldersLoaded(r)
    \/ \E r \in Delivered : CachedMessagesLoaded(r)
    \/ \E r \in Delivered : Connected(r)

SpecOffline == InitOffline /\ [][NextOffline]_vars

\* What the program keeps of a failed connect: the status line of the
\* Connected(Err) handler or the error of the setup dialog
\* (app.rs:503-526).
ConnectionError ==
    \/ status_message \in {"Connection failed", "folders (offline)"}
    \/ setup_error = Some("Connection failed")

\* C13: start-up with a cached folder list that holds INBOX and a connect
\* that fails: once the cached folders, the cached messages and the connect
\* failure have all been handled, in whatever order, the folder list is the
\* cached one, the message list is the cached first page of INBOX and the
\* connection is reported as failed.
C13_OfflineStartShowsCache ==
    ( /\ cache
      /\ IsSome(Position(cache_folders, "INBOX"))
      /\ ~session
      /\ Quiescent )
    => /\ folders = cache_folders
       /\ messages = load_messages(1, DEFAULT_PAGE_SIZE, 0)
       /\ ConnectionError


\* ------------------------------------------------------------------ claims: failed connect

\* The account has cached folders: a cache is held and its folder table is
\* not empty (what load_folders would return, app.rs:163-165).
HasCachedFolders == cache /\ cache_folders # <<>>

\* C15: update() on a failed connect, for an account without cached
\* folders, shows the setup dialog with the connection error; for an
\* account with cached folders it keeps the folder list, leaves the dialog
\* as it was and reports the failure in the status line only.
C15_FailedConnectByCachedFolders ==
    [][\A r \in Delivered :
          (Connected(r) /\ ~r.ok)
              => IF HasCachedFolders
                 THEN /\ UNCHANGED << folders, show_setup_dialog, setup_error >>
                      /\ status_message' \in {"Connection failed",
                                              "folders (offline)"}
                 ELSE /\ show_setup_dialog'
                      /\ status_message' = "Connection failed"]_vars


\* ------------------------------------------------------------------ accounts
\* The multi-account program (src/src/app/): the registry of types.rs, the
\* account handlers of accounts.rs and the setup submit of setup.rs.  The
\* handlers of the account-tagged results (sync.rs) are not in the tree:
\* they follow the specification, sections 4.1 and 5, with the status
\* line, the dialog and the tasks of the handlers of app.rs, applied to the
\* account the result names.

\* AccountState (types.rs:38-45); session 0 is None, session n the session
\* the account's n-th connect returned; folder_map follows from folders.
AccountState(id, sess, conn_state, fs) ==
    [id |-> id, session |-> sess, conn_state |-> conn_state, folders |-> fs]

\* AppModel::account_index (accounts.rs:47-49)
account_index(id) ==
    IF \E i \in 1..Len(accounts) : accounts[i].id = id
    THEN Some((CHOOSE i \in 1..Len(accounts) :
                 /\ accounts[i].id = id
                 /\ \A j \in 1..(i - 1) : accounts[j].id # id) - 1)
    ELSE None

\* ImapSession::connect(imap_config) for an account (mod.rs:148-152,
\* setup.rs:218-222): the closure holds the account id, nothing else of
\* the registry.
AccountConnectTask(id, n) ==
    [Task("account_connect") EXCEPT !.account_id = id, !.seq = n]
\* session.fetch_folders() of a connected account, the folder sync a
\* successful connect triggers
AccountSyncFoldersTask(id, n) ==
    [Task("account_sync_folders") EXCEPT !.account_id = id, !.seq = n,
                                         !.cached = cache]
\* cache.remove_account(removed_id) (accounts.rs:124-131)
RemoveAccountTask(id) ==
    [Task("remove_account") EXCEPT !.account_id = id]

\* update() takes a user message that works on the registry.
AccountIntent(name) ==
    /\ intents < MaxIntents
    /\ intents' = intents + 1
    /\ last' = name
    /\ UNCHANGED uiVars

\* ImapSession::connect(imap_config).await, resolving to AccountConnected
RunAccountConnect(t) ==
    /\ t.kind = "account_connect"
    /\ tasks' = Take(tasks, t)
    /\ \E ok \in BOOLEAN :
          Deliver([Result("AccountConnected", ok) EXCEPT
                      !.account_id = t.account_id, !.seq = t.seq])
    /\ UNCHANGED << appVars, cacheVars, netVars, last, intents, acctVars,
                    uiVars >>

\* cache.remove_account(removed_id).await, resolving to Noop
\* (accounts.rs:126-131); a removal that fails is logged and leaves the rows.
RunRemoveAccount(t) ==
    /\ t.kind = "remove_account"
    /\ tasks' = Take(tasks, t)
    /\ \E removed \in BOOLEAN :
          cache_accounts' = IF removed THEN cache_accounts \ {t.account_id}
                            ELSE cache_accounts
    /\ UNCHANGED << appVars, cacheVars, inbox, netVars, last, intents,
                    accounts, active_account, setup_model, keyring,
                    connects_started, uiVars >>

\* The fields of the application a new account dialog leaves alone.
behindDialog == << config, session, cache, folders, selected_folder, messages,
                   selected_message, messages_offset, has_more_messages,
                   preview_body, folder_map, is_syncing, status_message,
                   show_setup_dialog, password_only_mode >>

\* Message::AccountEdit (accounts.rs:70-90); the new SetupModel has no
\* error.
AccountEdit(id) ==
    /\ AccountIntent("AccountEdit")
    /\ setup_model' = IF IsSome(account_index(id)) THEN Some(id)
                      ELSE setup_model
    /\ setup_error' = IF IsSome(account_index(id)) THEN None
                      ELSE setup_error
    /\ UNCHANGED << behindDialog, cacheVars, tasks, inbox, netVars, accounts,
                    active_account, keyring, cache_accounts,
                    connects_started >>

\* The passwords of the accounts in ids.
Credentials(ids) ==
    { ImapPassword(id) : id \in ids } \cup { SmtpPassword(id) : id \in ids }

\* The keyring after set_smtp_password, called when an SMTP password is
\* given (setup.rs:114-129), and setup::store_password (setup.rs:148): each
\* stores its password, or the keyring refuses and the submit goes on with
\* PasswordBackend::Plaintext and the keyring as it was.
store_password(id) ==
    { keyring \cup stored : stored \in SUBSET Credentials({id}) }

\* SetupRequest::Full, the request of the dialog AccountAdd opens
\* (accounts.rs:66-69); an edit and a password prompt carry the account id.
FullSetup == 0

\* Message::AccountAdd (accounts.rs:66-69)
AccountAdd ==
    /\ AccountIntent("AccountAdd")
    /\ setup_model' = Some(FullSetup)
    /\ setup_error' = None
    /\ UNCHANGED << behindDialog, cacheVars, tasks, inbox, netVars, accounts,
                    active_account, keyring, cache_accounts,
                    connects_started >>

\* new_account_id(): an id no account has had so far.
FreshIds ==
    { id \in AccountIds :
        connects_started[id] = 0 /\ account_index(id) = None }

\* The account id a submit works on (setup.rs:106-111).
SubmitIds ==
    IF Unwrap(setup_model) = FullSetup THEN FreshIds
    ELSE {Unwrap(setup_model)}

\* The errors a submit ends with: SetupModel::validate() names a field
\* (setup.rs:70-73), no email address is given (setup.rs:88-92), the config
\* file is not saved (setup.rs:174-178).
SubmitErrors ==
    {"Invalid field",
     "At least one email address is required for sending",
     "Failed to save config"}

\* A rejected submit that starts the connect all the same.
SubmitRejectedConnects(err) ==
    /\ setup_error' = Some(err)
    /\ \E id \in SubmitIds :
          LET n == connects_started[id] + 1 IN
          /\ connects_started' = [connects_started EXCEPT ![id] = n]
          /\ tasks' = Spawn(tasks, {AccountConnectTask(id, n)})
    /\ UNCHANGED << accounts, setup_model, status_message, keyring >>

\* The early returns of SetupSubmit (setup.rs:70-73, 88-92, 174-178): the
\* error is put in the dialog; a submit that got as far as the save has
\* been through the two password stores (setup.rs:113-148).
SubmitRejected(err) ==
    /\ setup_error' = Some(err)
    /\ IF err = "Failed to save config"
       THEN \E id \in SubmitIds : keyring' \in store_password(id)
       ELSE UNCHANGED keyring
    /\ UNCHANGED << accounts, setup_model, status_message, connects_started,
                    tasks >>

\* Message::SetupSubmit of the account dialog (setup.rs:69-223), with the
\* registry looked up when lookup holds; valid: the fields pass validation
\* and the config file is saved, otherwise the handler returns with an error
\* in the dialog.
SetupSubmitLookup(valid, lookup) ==
    /\ IsSome(setup_model)
    /\ AccountIntent("SetupSubmit")
    /\ IF valid
       THEN \E id \in SubmitIds :
            LET idx == IF lookup THEN account_index(id) ELSE None
                n == connects_started[id] + 1
            IN
            /\ accounts' =
                 IF IsSome(idx)
                 THEN [accounts EXCEPT
                          ![Unwrap(idx) + 1].conn_state = "Connecting",
                          ![Unwrap(idx) + 1].session = 0]
                 ELSE Append(accounts, AccountState(id, 0, "Connecting", <<>>))
            /\ keyring' \in store_password(id)
            /\ setup_model' = None
            /\ setup_error' = None
            /\ status_message' = "Connecting..."
            /\ connects_started' = [connects_started EXCEPT ![id] = n]
            /\ tasks' = Spawn(tasks, {AccountConnectTask(id, n)})
       ELSE \E err \in SubmitErrors : SubmitRejected(err)
    /\ UNCHANGED << config, session, cache, folders, selected_folder, messages,
                    selected_message, messages_offset, has_more_messages,
                    preview_body, folder_map, is_syncing, show_setup_dialog,
                    password_only_mode, cacheVars, inbox, netVars,
                    active_account, cache_accounts >>

\* A submit that adds an account whatever the registry holds.
SetupSubmitAppends(valid) == SetupSubmitLookup(valid, FALSE)

\* Message::SetupSubmit of the account dialog (setup.rs:69-223): the
\* account is looked up by account_index (setup.rs:203).
SetupSubmitAccount(valid) == SetupSubmitLookup(valid, TRUE)

\* Message::SetupCancel of the account dialog (setup.rs:225-233): the
\* dialog goes, its error with it, and the status is rewritten whether a
\* dialog was open or not.
SetupCancelAccount ==
    /\ AccountIntent("SetupCancel")
    /\ setup_model' = None
    /\ setup_error' = None
    /\ status_message' = IF accounts = <<>> THEN "Not connected"
                         ELSE "folders (offline)"
    /\ UNCHANGED << config, session, cache, folders, selected_folder, messages,
                    selected_message, messages_offset, has_more_messages,
                    preview_body, folder_map, is_syncing, show_setup_dialog,
                    password_only_mode, cacheVars, tasks, inbox, netVars,
                    accounts, active_account, keyring, cache_accounts,
                    connects_started >>

\* An AccountConnected that stores the session and the connection state of
\* the account and triggers no folder sync.
AccountConnectedWithoutSync(r) ==
    /\ r.kind = "AccountConnected"
    /\ inbox' = Take(inbox, r)
    /\ last' = "AccountConnected"
    /\ LET idx == account_index(r.account_id) IN
       accounts' =
          IF ~IsSome(idx) THEN accounts
          ELSE IF r.ok
          THEN [accounts EXCEPT ![Unwrap(idx) + 1].session = r.seq,
                                ![Unwrap(idx) + 1].conn_state = "Connected"]
          ELSE [accounts EXCEPT ![Unwrap(idx) + 1].conn_state = "Error"]
    /\ UNCHANGED << appVars, cacheVars, tasks, netVars, intents,
                    active_account, setup_model, keyring, cache_accounts,
                    connects_started, uiVars >>

\* Message::AccountConnected (types.rs:147-150).  On success the session
\* is stored, the account is Connected and its folder sync is triggered; on
\* failure the account is in Error and, when it has no cached folders, the
\* setup dialog asks for the credentials again (specification, 4.1).  The
\* status line, is_syncing and the dialog are those of Message::Connected
\* (app.rs:478-526).
AccountConnected(r) ==
    /\ r.kind = "AccountConnected"
    /\ inbox' = Take(inbox, r)
    /\ last' = "AccountConnected"
    /\ LET idx == account_index(r.account_id) IN
       IF IsSome(idx)
       THEN LET i == Unwrap(idx) + 1
                had_cached_folders == accounts[i].folders # <<>>
            IN
            IF r.ok
            THEN /\ accounts' = [accounts EXCEPT ![i].session = r.seq,
                                                 ![i].conn_state = "Connected"]
                 /\ status_message' = IF had_cached_folders
                                      THEN "folders (syncing...)"
                                      ELSE "Connected. Loading folders..."
                 /\ tasks' = Spawn(tasks,
                                {AccountSyncFoldersTask(r.account_id, r.seq)})
                 /\ is_syncing' = IF had_cached_folders THEN is_syncing
                                  ELSE TRUE
                 /\ UNCHANGED << setup_model, setup_error,
                                 password_only_mode >>
            ELSE LET reshow == ~had_cached_folders /\ setup_model = None IN
                 /\ accounts' = [accounts EXCEPT ![i].conn_state = "Error"]
                 /\ is_syncing' = FALSE
                 /\ status_message' = IF had_cached_folders
                                      THEN "folders (offline)"
                                      ELSE "Connection failed"
                 /\ setup_model' = IF reshow THEN Some(r.account_id)
                                   ELSE setup_model
                 /\ setup_error' = IF reshow THEN Some("Connection failed")
                                   ELSE setup_error
                 /\ password_only_mode' = IF reshow /\ config THEN FALSE
                                          ELSE password_only_mode
                 /\ UNCHANGED tasks
       ELSE UNCHANGED << accounts, status_message, tasks, setup_model,
                         is_syncing, setup_error, password_only_mode >>
    /\ UNCHANGED << config, session, cache, folders, selected_folder, messages,
                    selected_message, messages_offset, has_more_messages,
                    preview_body, folder_map, show_setup_dialog, cacheVars,
                    netVars, intents, active_account, keyring, cache_accounts,
                    connects_started, uiVars >>

\* keyring::delete_password(username, server) and delete_smtp_password(id)
\* of a removed account (accounts.rs:113-119): the keyring after the two
\* calls; each deletes its password or fails, which is logged and leaves
\* the password, whatever the other does.
delete_password(id) ==
    { keyring \ deleted : deleted \in SUBSET Credentials({id}) }

\* An AccountRemove that leaves the index of the active account as it is
\* when a lower-indexed account is removed.
AccountRemoveKeepsIndex(id) ==
    /\ AccountIntent("AccountRemove")
    /\ LET found == account_index(id) IN
       IF IsSome(found)
       THEN LET idx == Unwrap(found)
                was_active == IsSome(active_account)
                                 /\ Unwrap(active_account) = idx
            IN
            /\ accounts' = Remove(accounts, idx)
            /\ active_account' = IF was_active THEN None ELSE active_account
            /\ messages' = IF was_active THEN <<>> ELSE messages
            /\ selected_folder' = IF was_active THEN None ELSE selected_folder
            /\ preview_body' = IF was_active THEN <<>> ELSE preview_body
            /\ keyring' \in delete_password(id)
            /\ status_message' = "Account removed"
            /\ tasks' = IF cache THEN Spawn(tasks, {RemoveAccountTask(id)})
                        ELSE tasks
       ELSE UNCHANGED << accounts, active_account, messages, selected_folder,
                         preview_body, keyring, status_message, tasks >>
    /\ UNCHANGED << config, session, cache, folders, selected_message,
                    messages_offset, has_more_messages, folder_map, is_syncing,
                    show_setup_dialog, password_only_mode, setup_error,
                    cacheVars, inbox, netVars, setup_model, cache_accounts,
                    connects_started >>

\* Message::AccountRemove (accounts.rs:91-133)
AccountRemove(id) ==
    /\ AccountIntent("AccountRemove")
    /\ LET found == account_index(id) IN
       IF IsSome(found)
       THEN LET idx == Unwrap(found)
                was_active == IsSome(active_account)
                                 /\ Unwrap(active_account) = idx
            IN
            /\ accounts' = Remove(accounts, idx)
            /\ active_account' =
                 IF IsSome(active_account)
                 THEN IF Unwrap(active_account) = idx THEN None
                      ELSE IF Unwrap(active_account) > idx
                           THEN Some(Unwrap(active_account) - 1)
                           ELSE active_account
                 ELSE active_account
            /\ messages' = IF was_active THEN <<>> ELSE messages
            /\ selected_folder' = IF was_active THEN None ELSE selected_folder
            /\ preview_body' = IF was_active THEN <<>> ELSE preview_body
            /\ keyring' \in delete_password(id)
            /\ status_message' = "Account removed"
            /\ tasks' = IF cache THEN Spawn(tasks, {RemoveAccountTask(id)})
                        ELSE tasks
       ELSE UNCHANGED << accounts, active_account, messages, selected_folder,
                         preview_body, keyring, status_message, tasks >>
    /\ UNCHANGED << config, session, cache, folders, selected_message,
                    messages_offset, has_more_messages, folder_map, is_syncing,
                    show_setup_dialog, password_only_mode, setup_error,
                    cacheVars, inbox, netVars, setup_model, cache_accounts,
                    connects_started >>


\* ------------------------------------------------------------------ scenario: accounts

\* The folders a connected account of the scenario shows.
AccountFolders == << Folder("INBOX", 1), Folder("Trash", 2) >>

\* The registry of a running multi-account program: n accounts, the first
\* connect of each started at init (mod.rs:129-153); the accounts in live,
\* all of them or all but the last, have had it succeed and show their
\* folders, the last may still wait for it; one account may be the active
\* one, its INBOX page on display with the first message open.
InitAccounts ==
    \E n \in 1..MaxAccounts : \E live \in {1..n, 1..(n - 1)} :
    \E act \in {None} \cup { Some(i) : i \in 0..(n - 1) } :
        /\ accounts = [i \in 1..n |->
                          IF i \in live
                          THEN AccountState(i, 1, "Connected", AccountFolders)
                          ELSE AccountState(i, 0, "Connecting", <<>>)]
        /\ active_account = act
        /\ setup_model = None
        /\ keyring = Credentials(1..n)
        /\ cache_accounts = 1..n
        /\ connects_started = [id \in AccountIds |-> IF id <= n THEN 1 ELSE 0]
        /\ tasks = SetToBag({ AccountConnectTask(i, 1) : i \in (1..n) \ live })
        /\ inbox = EmptyBag
        /\ cache \in BOOLEAN
        /\ messages = IF IsSome(act) THEN ServerMessages(1, DEFAULT_PAGE_SIZE)
                      ELSE <<>>
        /\ selected_folder = IF IsSome(act) THEN Some(0) ELSE None
        /\ selected_message = IF IsSome(act) THEN Some(0) ELSE None
        /\ preview_body = IF IsSome(act) THEN BodyOf(EnvelopeOf(1, 1)) ELSE <<>>
        /\ messages_offset = 0
        /\ has_more_messages = IsSome(act)
        /\ status_message = IF IsSome(act) THEN "Ready" ELSE "Starting up..."
        /\ config = TRUE
        /\ session = FALSE
        /\ folders = <<>>
        /\ folder_map = {}
        /\ is_syncing = FALSE
        /\ show_setup_dialog = FALSE
        /\ password_only_mode = FALSE
        /\ setup_error = None
        /\ cache_folders = <<>>
        /\ cache_msgs = [mh \in Mailboxes |-> <<>>]
        /\ cache_bodies = {}
        /\ net_folders = None
        /\ net_msgs = [mh \in Mailboxes |-> None]
        /\ last = "init"
        /\ intents = 0
        /\ FreshView

NextAccounts ==
    \/ \E t \in Spawned : RunAccountConnect(t)
    \/ \E t \in Spawned : RunRemoveAccount(t)
    \/ \E r \in Delivered : AccountConnected(r)
    \/ \E id \in AccountIds : AccountEdit(id)
    \/ \E valid \in BOOLEAN : SetupSubmitAccount(valid)
    \/ SetupCancelAccount
    \/ \E id \in AccountIds : AccountRemove(id)

SpecAccounts == InitAccounts /\ [][NextAccounts]_vars

\* ------------------------------------------------------------------ claims: accounts

\* A connect result is stale when a later connect was started for its
\* account: a second submit of the setup dialog superseded it.
Stale(r) == r.seq < connects_started[r.account_id]

\* C16: update() on a connect result that a later setup submit of the same
\* account has superseded leaves the registry as it is: the result is not
\* stored as the account's session and the account's folders and
\* connection state do not change.
C16_StaleConnectDropped ==
    [][\A r \in Delivered :
          (AccountConnected(r) /\ Stale(r)) => UNCHANGED accounts]_vars

\* The account with the given id, as a set of at most one record.
Registered(id) == { accounts[i] : i \in { j \in 1..Len(accounts) :
                                            accounts[j].id = id } }

\* C20: update() on AccountRemove(id) for a registered account leaves no
\* account with that id in the registry, the other accounts in their order,
\* no password of it in the keyring and, when a cache is held, one more
\* remove_account(id) task spawned; when the account was the active one the
\* same step empties the message list and the preview and unsets the
\* selected folder and the active account.  A deletion the keyring refuses
\* (accounts.rs:113-119) leaves a password of the removed account stored.
C20_RemoveClearsAccount ==
    [][\A id \in AccountIds :
          (AccountRemove(id) /\ Registered(id) # {})
              => /\ Registered(id)' = {}
                 /\ accounts' = SelectSeq(accounts, LAMBDA a : a.id # id)
                 /\ keyring' \cap Credentials({id}) = {}
                 /\ cache => tasks' = tasks (+) SetToBag({RemoveAccountTask(id)})
                 /\ (active_account = account_index(id))
                        => /\ messages' = <<>>
                           /\ selected_folder' = None
                           /\ preview_body' = <<>>
                           /\ active_account' = None]_vars


\* ------------------------------------------------------------------ watch events
\* Message::ImapEvent(account, ImapWatchEvent::FlagsChanged) (types.rs:218,
\* 269-288; mod.rs:472-473).  handle_watch is not in the tree: the handler
\* below follows the policy of the specification, section 4.4.  The pending
\* mutation record of an envelope is a server operation of it under way.

\* The message with the read and starred bits of a flag byte.
WithFlags(m, flags) ==
    [m EXCEPT !.is_read = (flags % 2 = 1),
              !.is_starred = ((flags \div 2) % 2 = 1)]

\* A watch handler that applies every flag change of the selected folder.
WatchFlagsApplied(mailbox_hash, envelope_hash, flags) ==
    /\ Handled("ImapEvent")
    /\ messages' =
         IF mailbox_hash = SelectedMailbox
         THEN [k \in 1..Len(messages) |->
                  IF messages[k].envelope_hash = envelope_hash
                  THEN WithFlags(messages[k], flags) ELSE messages[k]]
         ELSE messages
    /\ UNCHANGED << setupVars, session, cache, folderVars, selected_folder,
                    messages_offset, has_more_messages, viewVars, is_syncing,
                    status_message, cacheVars, tasks, inbox, netVars >>

\* FlagsChanged { mailbox_hash, envelope_hash, flags }: applied to the list
\* when it targets the selected folder and the envelope has no pending
\* mutation, suppressed otherwise.
WatchFlagsChanged(mailbox_hash, envelope_hash, flags) ==
    /\ Handled("ImapEvent")
    /\ messages' =
         IF mailbox_hash = SelectedMailbox /\ Outstanding(envelope_hash) = 0
         THEN [k \in 1..Len(messages) |->
                  IF messages[k].envelope_hash = envelope_hash
                  THEN WithFlags(messages[k], flags) ELSE messages[k]]
         ELSE messages
    /\ UNCHANGED << setupVars, session, cache, folderVars, selected_folder,
                    messages_offset, has_more_messages, viewVars, is_syncing,
                    status_message, cacheVars, tasks, inbox, netVars >>

\* The events the watch stream delivers: a flag byte for the first message
\* of INBOX.
WatchedEnvelopes == { << 1, EnvelopeOf(1, 1) >> }

\* The loaded INBOX of InitMutate with the folder list [INBOX, Trash] and
\* the first message unread and unstarred.
InitWatch ==
    /\ InitMutate
    /\ folders = << Folder("INBOX", 1), Folder("Trash", 2) >>
    /\ ShownFlags(messages[1]) = 0

\* Flag toggles on the loaded INBOX of InitWatch while the watch stream
\* reports flag changes; the server operations run and complete, the cache
\* writes that go with them stay spawned.
NextWatch ==
    \/ \E t \in Spawned : RunSetFlags(t)
    \/ \E r \in Delivered : FlagOpComplete(r)
    \/ \E index \in MessageRows : ToggleRead(index)
    \/ \E index \in MessageRows : ToggleStar(index)
    \/ \E ev \in WatchedEnvelopes : \E flags \in 0..3 :
          WatchFlagsChanged(ev[1], ev[2], flags)

SpecWatch == InitWatch /\ [][NextWatch]_vars

\* C17: update() on a watch-delivered FlagsChanged for an envelope that has
\* an optimistic mutation under way changes no flag of the message list and
\* nothing of the cache, the spawned tasks or the pending results: the
\* flags the list ends with are those the mutation's own handlers set.
C17_WatchSuppressedWhilePending ==
    [][\A ev \in WatchedEnvelopes : \A flags \in 0..3 :
          (WatchFlagsChanged(ev[1], ev[2], flags) /\ Outstanding(ev[2]) > 0)
              => UNCHANGED << messages, cacheVars, tasks, inbox >>]_vars

\* A flag change of the first INBOX message has just been handled while a
\* toggle of that message was under way.
C17_Witness ==
    /\ last = "ImapEvent"
    /\ SelectedMailbox = 1
    /\ Outstanding(EnvelopeOf(1, 1)) > 0


\* ------------------------------------------------------------------ claims: body cache

\* The BodyLoaded results that carry a body and wait for update().
LoadedBodies == { r \in Delivered : r.kind = "BodyLoaded" /\ r.ok }

\* The envelope hashes of the messages the server may hold.
Envelopes == { EnvelopeOf(mh, k) : mh \in Mailboxes, k \in 1..MaxRows }

\* C18: with a cache, every body that is on its way to BodyLoaded or shown
\* in the preview is in the body cache already (a fetched body is saved
\* before its BodyLoaded is delivered), and a body load that reads the
\* cache when the body of its envelope is cached resolves to that body
\* without a fetch, whatever the session would answer.  A save_body that
\* fails (app.rs:751-758) and a load_body that fails (app.rs:744-745)
\* break the first and the second half.
C18_FetchedBodyCachedFirst ==
    /\ [](cache => /\ \A r \in LoadedBodies : r.envelope_hash \in cache_bodies
                   /\ \A e \in Envelopes :
                         preview_body = BodyOf(e) => e \in cache_bodies)
    /\ [][\A t \in Spawned :
             (RunBody(t) /\ t.cached /\ t.stage = 0
                         /\ t.envelope_hash \in cache_bodies)
                 => /\ UNCHANGED cache_bodies
                    /\ tasks' = Take(tasks, t)
                    /\ inbox' = inbox (+) SetToBag(
                          {[Result("BodyLoaded", TRUE) EXCEPT
                               !.envelope_hash = t.envelope_hash,
                               !.body = BodyOf(t.envelope_hash)]})]_vars


\* ------------------------------------------------------------------ scenario: reading offline

\* The offline start with the user opening messages of the cached page
\* while the connect is still running or has failed.
NextOfflineBody ==
    \/ \E t \in Spawned : RunLoadFolders(t)
    \/ \E t \in Spawned : RunConnect(t)
    \/ \E t \in Spawned : RunLoadMessages(t)
    \/ \E t \in Spawned : RunBody(t)
    \/ \E r \in Delivered : CachedFoldersLoaded(r)
    \/ \E r \in Delivered : CachedMessagesLoaded(r)
    \/ \E r \in Delivered : Connected(r)
    \/ \E r \in Delivered : BodyLoaded(r)
    \/ \E index \in MessageRows : SelectMessage(index)

SpecOfflineBody == InitOffline /\ [][NextOfflineBody]_vars

\* C19: a body load that finds no body in the cache and holds no session
\* is deferred: the step that runs it hands no failed BodyLoaded to
\* update().
C19_NoSessionBodyLoadDeferred ==
    [][\A t \in Spawned :
          (RunBody(t) /\ ~t.online
                      /\ ~(t.cached /\ t.envelope_hash \in cache_bodies))
              => \A r \in BagToSet(inbox') :
                    (r.kind = "BodyLoaded" /\ ~r.ok)
                        => CopiesIn(r, inbox') = CopiesIn(r, inbox)]_vars



\* ------------------------------------------------------------------ scenario: routing

\* The requests of the user interface on the loaded INBOX of InitMutate,
\* each for a row of the view or for the row just past the end; the tasks
\* they spawn stay spawned.
NextRouting ==
    \/ \E index \in FolderRows : SelectFolder(index)
    \/ \E index \in MessageRows : SelectMessage(index)
    \/ \E index \in MessageRows : ToggleRead(index)
    \/ \E index \in MessageRows : ToggleStar(index)
    \/ \E index \in MessageRows : TrashMessage(index)
    \/ \E index \in MessageRows : ArchiveMessage(index)

SpecRouting == InitMutate /\ [][NextRouting]_vars

\* C21: a request for a message index outside the message list, or for a
\* folder row that names no mailbox, is rejected in its handler: the step
\* changes no field of the program state, no table of the cache, and spawns
\* no task.
C21_UnroutableRejected ==
    [][/\ \A index \in MessageRows :
             (/\ Get(messages, index) = None
              /\ \/ SelectMessage(index)
                 \/ ToggleRead(index)
                 \/ ToggleStar(index)
                 \/ TrashMessage(index)
                 \/ ArchiveMessage(index))
                 => UNCHANGED << appVars, cacheVars, tasks >>
       /\ \A index \in FolderRows :
             (Get(folders, index) = None /\ SelectFolder(index))
                 => UNCHANGED << appVars, cacheVars, tasks >>]_vars



\* ------------------------------------------------------------------ scenario: fetches

\* Refreshes and message openings on the loaded INBOX of InitWatch: the
\* folder fetch, the message fetch it triggers, the cache read that follows
\* and the body loads, each of them succeeding or failing.
NextFetch ==
    \/ \E t \in Spawned : RunSyncFolders(t)
    \/ \E t \in Spawned : RunSyncMessages(t)
    \/ \E t \in Spawned : RunLoadMessages(t)
    \/ \E t \in Spawned : RunBody(t)
    \/ \E r \in Delivered : SyncFoldersComplete(r)
    \/ \E r \in Delivered : SyncMessagesComplete(r)
    \/ \E r \in Delivered : CachedMessagesLoaded(r)
    \/ \E r \in Delivered : BodyLoaded(r)
    \/ \E index \in MessageRows : SelectMessage(index)
    \/ Refresh

SpecFetch == InitWatch /\ [][NextFetch]_vars

\* C22: update() on a failed folder fetch, message fetch or body fetch
\* leaves the folder list, the folder map, the message list, the selected
\* folder and message and the preview body exactly as they were.
C22_FailedFetchKeepsView ==
    [][\A r \in Delivered :
          (/\ ~r.ok
           /\ \/ SyncFoldersComplete(r)
              \/ SyncMessagesComplete(r)
              \/ BodyLoaded(r))
              => UNCHANGED << folders, folder_map, messages, selected_folder,
                              selected_message, preview_body >>]_vars



\* ------------------------------------------------------------------ claims: cached folders

\* C23: update() on a non-empty CachedFoldersLoaded selects the INBOX of
\* the cached list when no folder is selected, and leaves selected_folder
\* as it is when a folder is selected already.
C23_CachedFoldersKeepSelection ==
    [][\A r \in Delivered :
          (CachedFoldersLoaded(r) /\ r.ok /\ r.folders # <<>>)
              => selected_folder' = IF selected_folder = None
                                    THEN Position(r.folders, "INBOX")
                                    ELSE selected_folder]_vars



\* ------------------------------------------------------------------ accounts: start-up sync
\* The start-up of the multi-account program (src/src/app/mod.rs:129-153):
\* per account a cached folder load and a connect, all spawned in one batch.
\* The handlers of the account-tagged results (types.rs:145-171) are not in
\* the tree: they follow the specification, section 5, with the status line
\* and the tasks of the handlers of app.rs, applied to the account the
\* result names.

\* cache.load_folders(aid) (mod.rs:139-145)
AccountLoadFoldersTask(id) ==
    [Task("account_load_folders") EXCEPT !.account_id = id]
\* session.fetch_messages(mailbox_hash) of an account, the message sync a
\* completed folder sync triggers
AccountSyncMessagesTask(id, mailbox_hash) ==
    [Task("account_sync_messages") EXCEPT !.account_id = id,
                                          !.mailbox_hash = mailbox_hash,
                                          !.cached = cache]

\* cache.load_folders(aid).await, resolving to CachedFoldersLoaded
\* { account_id, result } (mod.rs:141-144)
RunAccountLoadFolders(t) ==
    /\ t.kind = "account_load_folders"
    /\ tasks' = Take(tasks, t)
    /\ \E ok \in BOOLEAN :
          Deliver([Result("AccountCachedFoldersLoaded", ok) EXCEPT
                      !.account_id = t.account_id,
                      !.folders = IF ok /\ t.account_id \in cache_accounts
                                  THEN AccountFolders ELSE <<>>])
    /\ UNCHANGED << appVars, cacheVars, netVars, last, intents, acctVars,
                    uiVars >>

\* The folder sync of an account: session.fetch_folders().await and, on a
\* fetched list with a cache, cache.save_folders(..).await, resolving to
\* SyncFoldersComplete { account_id, result } (types.rs:167-170), as the
\* folder sync of app.rs:493-501 does.
RunAccountSyncFolders(t) ==
    /\ t.kind = "account_sync_folders"
    /\ IF t.stage = 0
       THEN \* session.fetch_folders().await
            /\ \E ok \in BOOLEAN :
                  IF ok /\ t.cached
                  THEN /\ tasks' = Suspend(tasks, t, AccountFolders)
                       /\ UNCHANGED inbox
                  ELSE /\ tasks' = Take(tasks, t)
                       /\ Deliver([Result("AccountSyncFoldersComplete", ok)
                                      EXCEPT
                                      !.account_id = t.account_id,
                                      !.seq = t.seq,
                                      !.folders = IF ok THEN AccountFolders
                                                  ELSE <<>>])
            /\ UNCHANGED cache_accounts
       ELSE \* cache.save_folders(folders).await, Err logged
            /\ \E saved \in BOOLEAN :
                  cache_accounts' = IF saved
                                    THEN cache_accounts \cup {t.account_id}
                                    ELSE cache_accounts
            /\ tasks' = Take(tasks, t)
            /\ Deliver([Result("AccountSyncFoldersComplete", TRUE) EXCEPT
                           !.account_id = t.account_id, !.seq = t.seq,
                           !.folders = t.fetched])
    /\ UNCHANGED << appVars, cacheVars, netVars, last, intents, accounts,
                    active_account, setup_model, keyring, connects_started,
                    uiVars >>

\* Message::CachedFoldersLoaded { account_id, result } (types.rs:162-165):
\* the cached folders of the account are shown first (specification, 4.2),
\* with the status line and the message load of Message::CachedFoldersLoaded
\* (app.rs:424-451).
AccountCachedFoldersLoaded(r) ==
    /\ r.kind = "AccountCachedFoldersLoaded"
    /\ inbox' = Take(inbox, r)
    /\ last' = "AccountCachedFoldersLoaded"
    /\ LET found == account_index(r.account_id)
           idx == Position(r.folders, "INBOX")
       IN
       IF IsSome(found) /\ r.ok /\ r.folders # <<>>
       THEN /\ accounts' = [accounts EXCEPT ![Unwrap(found) + 1].folders = r.folders]
            /\ status_message' = "folders (cached)"
            /\ selected_folder' = IF IsSome(idx) THEN idx ELSE selected_folder
            /\ IF IsSome(idx) /\ cache
               THEN /\ messages_offset' = 0
                    /\ tasks' = Spawn(tasks,
                          {LoadMessagesTask(r.folders[Unwrap(idx) + 1].mailbox_hash, 0)})
               ELSE UNCHANGED << messages_offset, tasks >>
       ELSE UNCHANGED << accounts, status_message, selected_folder,
                         messages_offset, tasks >>
    /\ UNCHANGED << config, session, cache, folders, messages, selected_message,
                    has_more_messages, preview_body, folder_map, is_syncing,
                    show_setup_dialog, password_only_mode, setup_error,
                    cacheVars, netVars, intents, active_account, setup_model,
                    keyring, cache_accounts, connects_started, uiVars >>

\* A folder-sync handler with a global barrier: it holds the message sync
\* back while any account of the registry is still connecting.
AccountSyncFoldersBarrier(r) ==
    /\ r.kind = "AccountSyncFoldersComplete"
    /\ inbox' = Take(inbox, r)
    /\ last' = "AccountSyncFoldersComplete"
    /\ LET found == account_index(r.account_id) IN
       IF IsSome(found) /\ r.ok
       THEN LET i == Unwrap(found) + 1
                idx == Position(r.folders, "INBOX")
                sel == IF selected_folder = None /\ IsSome(idx) THEN idx
                       ELSE selected_folder
                folder == SelectedFolderOf(sel, r.folders)
                waiting == \E j \in 1..Len(accounts) :
                              accounts[j].conn_state = "Connecting"
            IN
            /\ accounts' = [accounts EXCEPT ![i].folders = r.folders]
            /\ status_message' = "folders"
            /\ selected_folder' = sel
            /\ tasks' = IF IsSome(folder) /\ accounts[i].session # 0 /\ ~waiting
                        THEN Spawn(tasks, {AccountSyncMessagesTask(
                                 r.account_id, Unwrap(folder).mailbox_hash)})
                        ELSE tasks
       ELSE /\ status_message' =
                  IF ~IsSome(found) THEN status_message
                  ELSE IF accounts[Unwrap(found) + 1].folders = <<>>
                       THEN "Failed to load folders"
                       ELSE "folders (sync failed)"
            /\ UNCHANGED << accounts, selected_folder, tasks >>
    /\ is_syncing' = IF IsSome(account_index(r.account_id)) THEN FALSE
                     ELSE is_syncing
    /\ UNCHANGED << config, session, cache, folders, messages, selected_message,
                    messages_offset, has_more_messages, preview_body,
                    folder_map, show_setup_dialog,
                    password_only_mode, setup_error, cacheVars, netVars,
                    intents, active_account, setup_model, keyring,
                    cache_accounts, connects_started, uiVars >>

\* Message::SyncFoldersComplete { account_id, result } (types.rs:167-170):
\* the folder sync of the account has completed and triggers its message
\* sync, whatever the other accounts do (specification, 5).  The folders
\* are stored, INBOX is selected when no folder is, and the message sync of
\* the selected folder is spawned on the account's session, as
\* Message::SyncFoldersComplete does (app.rs:531-580).
AccountSyncFoldersComplete(r) ==
    /\ r.kind = "AccountSyncFoldersComplete"
    /\ inbox' = Take(inbox, r)
    /\ last' = "AccountSyncFoldersComplete"
    /\ LET found == account_index(r.account_id) IN
       IF IsSome(found) /\ r.ok
       THEN LET i == Unwrap(found) + 1
                idx == Position(r.folders, "INBOX")
                sel == IF selected_folder = None /\ IsSome(idx) THEN idx
                       ELSE selected_folder
                folder == SelectedFolderOf(sel, r.folders)
            IN
            /\ accounts' = [accounts EXCEPT ![i].folders = r.folders]
            /\ status_message' = "folders"
            /\ selected_folder' = sel
            /\ tasks' = IF IsSome(folder) /\ accounts[i].session # 0
                        THEN Spawn(tasks, {AccountSyncMessagesTask(
                                 r.account_id, Unwrap(folder).mailbox_hash)})
                        ELSE tasks
       ELSE /\ status_message' =
                  IF ~IsSome(found) THEN status_message
                  ELSE IF accounts[Unwrap(found) + 1].folders = <<>>
                       THEN "Failed to load folders"
                       ELSE "folders (sync failed)"
            /\ UNCHANGED << accounts, selected_folder, tasks >>
    /\ is_syncing' = IF IsSome(account_index(r.account_id)) THEN FALSE
                     ELSE is_syncing
    /\ UNCHANGED << config, session, cache, folders, messages, selected_message,
                    messages_offset, has_more_messages, preview_body,
                    folder_map, show_setup_dialog,
                    password_only_mode, setup_error, cacheVars, netVars,
                    intents, active_account, setup_model, keyring,
                    cache_accounts, connects_started, uiVars >>

\* AppModel::init with n configured accounts (mod.rs:129-153): every
\* account is Connecting, its connect is spawned and, with a cache, its
\* cached folder load; the cache, when there is one, holds the folders an
\* earlier run saved for every account.
InitAccountSync ==
    \E n \in 1..MaxAccounts : \E cached \in {1..n} :
        /\ accounts = [i \in 1..n |-> AccountState(i, 0, "Connecting", <<>>)]
        /\ active_account = None
        /\ setup_model = None
        /\ keyring = Credentials(1..n)
        /\ cache \in BOOLEAN
        /\ cache_accounts = IF cache THEN cached ELSE {}
        /\ connects_started = [id \in AccountIds |-> IF id <= n THEN 1 ELSE 0]
        /\ tasks = SetToBag({ AccountConnectTask(i, 1) : i \in 1..n }
                            \cup (IF cache
                                  THEN { AccountLoadFoldersTask(i) : i \in 1..n }
                                  ELSE {}))
        /\ inbox = EmptyBag
        /\ messages = <<>>
        /\ selected_folder = None
        /\ selected_message = None
        /\ preview_body = <<>>
        /\ messages_offset = 0
        /\ has_more_messages = FALSE
        /\ status_message = "Starting up..."
        /\ config = TRUE
        /\ session = FALSE
        /\ folders = <<>>
        /\ folder_map = {}
        /\ is_syncing = FALSE
        /\ show_setup_dialog = FALSE
        /\ password_only_mode = FALSE
        /\ setup_error = None
        /\ cache_folders = <<>>
        /\ cache_msgs = [mh \in Mailboxes |-> <<>>]
        /\ cache_bodies = {}
        /\ net_folders = None
        /\ net_msgs = [mh \in Mailboxes |-> None]
        /\ last = "init"
        /\ intents = 0
        /\ FreshView

\* The start-up sync of every account; the message loads and message syncs
\* the handlers spawn stay spawned: the scenario follows their dispatch.
NextAccountSync ==
    \/ \E t \in Spawned : RunAccountLoadFolders(t)
    \/ \E t \in Spawned : RunAccountConnect(t)
    \/ \E t \in Spawned : RunAccountSyncFolders(t)
    \/ \E r \in Delivered : AccountCachedFoldersLoaded(r)
    \/ \E r \in Delivered : AccountConnected(r)
    \/ \E r \in Delivered : AccountSyncFoldersComplete(r)

SpecAccountSync == InitAccountSync /\ [][NextAccountSync]_vars


\* ------------------------------------------------------------------ claims: connect

\* The executor runs every spawned future to completion: the folder sync
\* of an account, once spawned, is eventually run, await by await.
FairAccountSync ==
    \A id \in AccountIds :
        WF_vars(\E t \in Spawned : t.account_id = id /\ RunAccountSyncFolders(t))

\* The start-up connects of the accounts and the folder syncs they
\* trigger; the results of the folder syncs wait for update().
NextConnect ==
    \/ \E t \in Spawned : RunAccountConnect(t)
    \/ \E r \in Delivered : AccountConnected(r)
    \/ \E t \in Spawned : RunAccountSyncFolders(t)

SpecConnectFair == InitAccountSync /\ [][NextConnect]_vars /\ FairAccountSync

\* The folder sync of the account is spawned, or between two of its awaits.
FolderSyncDispatched(id) ==
    \E t \in Spawned : t.kind = "account_sync_folders" /\ t.account_id = id

\* A SyncFoldersComplete of the account waits for update().
FolderSyncDelivered(id) ==
    \E r \in Delivered : /\ r.kind = "AccountSyncFoldersComplete"
                         /\ r.account_id = id

\* C14: update() on a successful connect of a registered account stores
\* the session of that connect in the account, puts the account in
\* Connected and spawns one more folder sync of it; and the result of a
\* spawned folder sync is later delivered as SyncFoldersComplete of that
\* account.
C14_ConnectLeadsToFolderSync ==
    /\ [][\A r \in Delivered :
              (AccountConnected(r) /\ r.ok /\ IsSome(account_index(r.account_id)))
                  => LET i == Unwrap(account_index(r.account_id)) + 1 IN
                     /\ accounts'[i].session = r.seq
                     /\ accounts'[i].conn_state = "Connected"
                     /\ tasks' = tasks (+) SetToBag(
                           {AccountSyncFoldersTask(r.account_id, r.seq)})]_vars
    /\ \A id \in AccountIds :
          FolderSyncDispatched(id) ~> FolderSyncDelivered(id)

\* The connect of the second account has just succeeded while the first is
\* still connecting: the second account holds the session and is Connected,
\* and its folder sync is spawned, not yet run.
C14_Witness ==
    /\ last = "AccountConnected"
    /\ Len(accounts) = 2
    /\ accounts[1].conn_state = "Connecting"
    /\ accounts[2].session = 1
    /\ accounts[2].conn_state = "Connected"
    /\ AccountSyncFoldersTask(2, 1) \in Spawned
    /\ ~FolderSyncDelivered(2)


\* ------------------------------------------------------------------ claims: sync order

\* The message syncs of an account that are spawned and have not run.
MessageSyncs(id) ==
    LET ts == { t \in Spawned : /\ t.kind = "account_sync_messages"
                                /\ t.account_id = id }
    IN  BagCardinality([t \in ts |-> tasks[t]])

\* C24: a message sync of an account is spawned only by the step that
\* handles a successful folder sync of that same account; and whatever the
\* other accounts are waiting for, a successful connect of an account spawns
\* its folder sync, a successful folder sync spawns its message sync, and
\* every spawned connect or folder sync can run and every delivered result
\* can be handled at once.
C24_SyncOrderPerAccount ==
    /\ [][\A id \in AccountIds :
             MessageSyncs(id)' > MessageSyncs(id)
                 => \E r \in Delivered : /\ r.ok
                                         /\ r.account_id = id
                                         /\ AccountSyncFoldersComplete(r)]_vars
    /\ [][\A r \in Delivered :
             (AccountConnected(r) /\ r.ok)
                 => tasks' = tasks (+) SetToBag(
                       {AccountSyncFoldersTask(r.account_id, r.seq)})]_vars
    /\ [][\A r \in Delivered :
             (AccountSyncFoldersComplete(r) /\ r.ok)
                 => MessageSyncs(r.account_id)' = MessageSyncs(r.account_id) + 1]_vars
    /\ [](/\ \A t \in Spawned :
                /\ t.kind = "account_connect" => ENABLED RunAccountConnect(t)
                /\ t.kind = "account_sync_folders" => ENABLED RunAccountSyncFolders(t)
          /\ \A r \in Delivered :
                /\ r.kind = "AccountConnected" => ENABLED AccountConnected(r)
                /\ r.kind = "AccountSyncFoldersComplete"
                      => ENABLED AccountSyncFoldersComplete(r))

\* The folder sync of the second account has just completed and its message
\* sync is spawned while the first account is still connecting, its connect
\* not yet run.
C24_Witness ==
    /\ last = "AccountSyncFoldersComplete"
    /\ Len(accounts) = 2
    /\ accounts[1].conn_state = "Connecting"
    /\ AccountConnectTask(1, 1) \in Spawned
    /\ MessageSyncs(2) = 1



\* ------------------------------------------------------------------ reconnect
\* Message::ForceReconnect(AccountId) (types.rs:241), sent by the status
\* pill of the sidebar (ui/sidebar.rs:73-98).  Its handler is not in the
\* tree: the effect below follows the specification, section 4.1.

\* status_pill_view: the pill is a button in these states
\* (ui/sidebar.rs:82-85).
clickable(conn_state) == conn_state \in {"Connected", "Error", "Disconnected"}

\* A ForceReconnect that starts the new connect and keeps the session the
\* account holds.
ForceReconnectKeepsSession(id) ==
    /\ IsSome(account_index(id))
    /\ clickable(accounts[Unwrap(account_index(id)) + 1].conn_state)
    /\ AccountIntent("ForceReconnect")
    /\ LET i == Unwrap(account_index(id)) + 1
           n == connects_started[id] + 1
       IN
       /\ accounts' = [accounts EXCEPT ![i].conn_state = "Connecting"]
       /\ connects_started' = [connects_started EXCEPT ![id] = n]
       /\ tasks' = Spawn(tasks, {AccountConnectTask(id, n)})
    /\ UNCHANGED << appVars, cacheVars, inbox, netVars, active_account,
                    setup_model, keyring, cache_accounts >>

\* A press on the status pill of a registered account: the session is
\* dropped, the account is Connecting and a new connect is spawned.
ForceReconnect(id) ==
    /\ IsSome(account_index(id))
    /\ clickable(accounts[Unwrap(account_index(id)) + 1].conn_state)
    /\ AccountIntent("ForceReconnect")
    /\ LET i == Unwrap(account_index(id)) + 1
           n == connects_started[id] + 1
       IN
       /\ accounts' = [accounts EXCEPT ![i].session = 0,
                                       ![i].conn_state = "Connecting"]
       /\ connects_started' = [connects_started EXCEPT ![id] = n]
       /\ tasks' = Spawn(tasks, {AccountConnectTask(id, n)})
    /\ UNCHANGED << appVars, cacheVars, inbox, netVars, active_account,
                    setup_model, keyring, cache_accounts >>

\* The registry as AppModel::init leaves it (mod.rs:129-153), here without
\* a cache: every account is Connecting (mod.rs:134-136) and its connect is
\* spawned.  The connects and their handling take the accounts to Connected
\* and Error.
InitReconnect == InitAccountSync /\ ~cache

NextReconnect ==
    \/ \E t \in Spawned : RunAccountConnect(t)
    \/ \E r \in Delivered : AccountConnected(r)
    \/ \E id \in AccountIds : ForceReconnect(id)

SpecReconnect == InitReconnect /\ [][NextReconnect]_vars

\* C25: ForceReconnect is issued for an account only while its connection
\* state is Connected or Error, and the step leaves the account without a
\* session and Connecting.  (The pill can be pressed in Disconnected as
\* well, ui/sidebar.rs:84; no registered account is in that state.)
C25_ReconnectFromConnectedOrError ==
    [][\A id \in AccountIds :
          ForceReconnect(id)
              => LET i == Unwrap(account_index(id)) + 1 IN
                 /\ accounts[i].conn_state \in {"Connected", "Error"}
                 /\ accounts'[i].session = 0
                 /\ accounts'[i].conn_state = "Connecting"]_vars

\* The first account was connected on the session of its first connect and
\* the user has pressed its status pill: the account is Connecting without
\* a session and its second connect is spawned.
C25_Witness ==
    /\ last = "ForceReconnect"
    /\ accounts[1].session = 0
    /\ accounts[1].conn_state = "Connecting"
    /\ connects_started[1] = 2
    /\ AccountConnectTask(1, 2) \in Spawned
    /\ AccountSyncFoldersTask(1, 1) \in Spawned



\* ------------------------------------------------------------------ thread projection
\* The collapse-aware projection of the message list (types.rs:92-97;
\* view, mod.rs:320-330).  handle_navigation and the recomputation of
\* visible_indices are not in the tree: they follow the specification,
\* section 4.5.  Selection indices are rows of the projection.

\* MessageSummary::thread_id (models.rs:26) of the k-th message of a
\* mailbox: the first two messages are a thread rooted at the first, the
\* next two a thread rooted at the fourth (its reply is listed first), the
\* rest have no thread.
ThreadIdOf(envelope_hash) ==
    LET k == envelope_hash % 10
        base == envelope_hash - k
    IN  CASE k \in {1, 2} -> Some(base + 1)
          [] k \in {3, 4} -> Some(base + 4)
          [] OTHER -> None

\* MessageSummary::thread_depth (models.rs:33): 0 for a thread root.
ThreadDepthOf(envelope_hash) ==
    IF envelope_hash % 10 \in {2, 3} THEN 1 ELSE 0

\* A message is visible iff it is a thread root or its thread is not
\* collapsed.
IsVisible(m, collapsed) ==
    \/ ThreadDepthOf(m.envelope_hash) = 0
    \/ ThreadIdOf(m.envelope_hash) = None
    \/ Unwrap(ThreadIdOf(m.envelope_hash)) \notin collapsed

\* The projection: the indices of the visible messages, in list order.
recompute_visible(msgs, collapsed) ==
    LET Shown(i) == IsVisible(msgs[i + 1], collapsed)
    IN  SelectSeq([k \in 1..Len(msgs) |-> k - 1], Shown)

\* The message of the selected row of the projection, if there is one.
SelectedRowMessage ==
    IF IsSome(selected_message)
    THEN LET real == Get(visible_indices, Unwrap(selected_message)) IN
         IF IsSome(real) THEN Get(messages, Unwrap(real)) ELSE None
    ELSE None

\* The thread of the selected row, if the row has one.
SelectedThread ==
    IF IsSome(SelectedRowMessage)
    THEN ThreadIdOf(Unwrap(SelectedRowMessage).envelope_hash)
    ELSE None

\* HashSet: remove the id when present, insert it otherwise.
toggle_collapse(collapsed, thread_id) ==
    IF thread_id \in collapsed THEN collapsed \ {thread_id}
    ELSE collapsed \cup {thread_id}

\* update() takes a key press of the list view.
ViewIntent(name) ==
    /\ intents < MaxIntents
    /\ intents' = intents + 1
    /\ last' = name
    /\ UNCHANGED << appVars, cacheVars, tasks, inbox, netVars, acctVars,
                    auto_read_suppressed, watch_ended, watch_streams, mimeVars >>

\* A collapse toggle that only ever inserts the thread id.
CollapseOnly ==
    /\ ViewIntent("ToggleThreadCollapse")
    /\ collapsed_threads' = IF IsSome(SelectedThread)
                            THEN collapsed_threads \cup {Unwrap(SelectedThread)}
                            ELSE collapsed_threads
    /\ visible_indices' = recompute_visible(messages, collapsed_threads')

\* Message::ToggleThreadCollapse (types.rs:195; space key, mod.rs:249-251):
\* the thread of the selected row is collapsed or expanded and the
\* projection recomputed.
ToggleThreadCollapse ==
    /\ ViewIntent("ToggleThreadCollapse")
    /\ collapsed_threads' = IF IsSome(SelectedThread)
                            THEN toggle_collapse(collapsed_threads,
                                                 Unwrap(SelectedThread))
                            ELSE collapsed_threads
    /\ visible_indices' = recompute_visible(messages, collapsed_threads')

\* A step of ViewIntent that moves the selection to a row and leaves the
\* projection alone.
MoveSelection(name, row) ==
    /\ intents < MaxIntents
    /\ intents' = intents + 1
    /\ last' = name
    /\ selected_message' = row
    /\ UNCHANGED << config, session, cache, folders, selected_folder, messages,
                    messages_offset, has_more_messages, preview_body,
                    folder_map, is_syncing, status_message, show_setup_dialog,
                    password_only_mode, setup_error, cacheVars, tasks, inbox,
                    netVars, acctVars, uiVars >>

\* Message::SelectionUp (types.rs:192; arrow up and k, mod.rs:228-248)
SelectionUp ==
    MoveSelection("SelectionUp",
                  IF visible_indices = <<>> THEN selected_message
                  ELSE IF IsSome(selected_message) /\ Unwrap(selected_message) > 0
                       THEN Some(Unwrap(selected_message) - 1)
                       ELSE Some(0))

\* Message::SelectionDown (types.rs:193; arrow down and j, mod.rs:225-242)
SelectionDown ==
    MoveSelection("SelectionDown",
                  IF visible_indices = <<>> THEN selected_message
                  ELSE IF IsSome(selected_message)
                       THEN Some(Min(Unwrap(selected_message) + 1,
                                     Len(visible_indices) - 1))
                       ELSE Some(0))

\* The rows of INBOX after the second page was loaded (two full pages, or
\* two pages and a last row): no thread collapsed, any row or none
\* selected.
InitThreads ==
    \E fs \in InboxLists : \E n \in {2 * DEFAULT_PAGE_SIZE, MaxRows} :
    \E sel \in {None} \cup { Some(i) : i \in 0..(n - 1) } :
        /\ config = TRUE
        /\ session = TRUE
        /\ cache = TRUE
        /\ folders = fs
        /\ folder_map = rebuild_folder_map(fs)
        /\ selected_folder = Position(fs, "INBOX")
        /\ cache_folders = fs
        /\ cache_msgs = [mh \in Mailboxes |->
                            IF mh = 1
                            THEN [k \in 1..n |-> RowOf(ServerMessages(1, n)[k])]
                            ELSE <<>>]
        /\ cache_bodies = {}
        /\ messages = ServerMessages(1, n)
        /\ selected_message = sel
        /\ messages_offset = IF n = MaxRows THEN 2 * DEFAULT_PAGE_SIZE
                             ELSE DEFAULT_PAGE_SIZE
        /\ has_more_messages = (n = 2 * DEFAULT_PAGE_SIZE)
        /\ preview_body = <<>>
        /\ is_syncing = FALSE
        /\ status_message = "messages"
        /\ show_setup_dialog = FALSE
        /\ password_only_mode = FALSE
        /\ setup_error = None
        /\ tasks = EmptyBag
        /\ inbox = EmptyBag
        /\ net_folders = Some(fs)
        /\ net_msgs = [mh \in Mailboxes |->
                          IF mh = 1 THEN Some(ServerMessages(1, n)) ELSE None]
        /\ last = "CachedMessagesLoaded"
        /\ intents = 0
        /\ NoRegistry
        /\ collapsed_threads = {}
        /\ visible_indices = recompute_visible(messages, {})
        /\ auto_read_suppressed = FALSE
        /\ watch_ended = {}
        /\ watch_streams = NoStreams
        /\ NoRender

NextThreads ==
    \/ ToggleThreadCollapse
    \/ SelectionUp
    \/ SelectionDown

SpecThreads == InitThreads /\ [][NextThreads]_vars

\* The thread ids of the messages of the list.
ThreadIds ==
    { Unwrap(ThreadIdOf(messages[k].envelope_hash)) :
         k \in { j \in 1..Len(messages) :
                    IsSome(ThreadIdOf(messages[j].envelope_hash)) } }

\* C26: a second ToggleThreadCollapse for the thread the first one
\* collapsed, the message list unchanged, leaves the collapsed-thread set
\* and the visible projection as they were before the first (here: nothing
\* collapsed, every row visible); and for every collapsed-thread set and
\* thread id of the list, toggling twice gives the set and the projection
\* back, and the stored projection is always the one the rule derives.
C26_CollapseTwiceRestores ==
    /\ [][(/\ ToggleThreadCollapse
           /\ intents = 1
           /\ last = "ToggleThreadCollapse"
           /\ IsSome(SelectedThread)
           /\ Unwrap(SelectedThread) \in collapsed_threads)
             => /\ collapsed_threads' = {}
                /\ visible_indices' = [k \in 1..Len(messages) |-> k - 1]]_vars
    /\ [](/\ visible_indices = recompute_visible(messages, collapsed_threads)
          /\ \A c \in SUBSET ThreadIds : \A t \in ThreadIds :
                /\ toggle_collapse(toggle_collapse(c, t), t) = c
                /\ recompute_visible(messages,
                       toggle_collapse(toggle_collapse(c, t), t))
                      = recompute_visible(messages, c))

\* The thread of the selected row was collapsed and expanded again by two
\* toggles: nothing is collapsed and every row is visible.
C26_Witness ==
    /\ intents = 2
    /\ last = "ToggleThreadCollapse"
    /\ IsSome(SelectedThread)
    /\ collapsed_threads = {}
    /\ Len(visible_indices) = Len(messages)



\* ------------------------------------------------------------------ auto-mark-read
\* Message::AutoMarkRead(u64) (types.rs:238-239) and auto_read_suppressed
\* (types.rs:138-139).  The handlers of AutoMarkRead and ViewBody are not
\* in the tree: they follow the specification, section 4.3, and the
\* comments of the two declarations.  The manual toggle is
\* Message::ToggleRead (app.rs:797-845).

\* The timer a displayed message starts: it resolves to AutoMarkRead of the
\* envelope after the dwell time.
AutoMarkReadTimer(envelope_hash) ==
    [Task("auto_mark_read") EXCEPT !.envelope_hash = envelope_hash]

\* The dwell time of a displayed message has passed.
RunAutoMarkReadTimer(t) ==
    /\ t.kind = "auto_mark_read"
    /\ tasks' = Take(tasks, t)
    /\ Deliver([Result("AutoMarkRead", TRUE) EXCEPT
                   !.envelope_hash = t.envelope_hash])
    /\ UNCHANGED << appVars, cacheVars, netVars, last, intents, acctVars,
                    uiVars >>

\* Message::ViewBody(index) (types.rs:154): the message is displayed and
\* its body load and its auto-mark-read timer are started.
ViewBody(index) ==
    /\ intents < MaxIntents
    /\ intents' = intents + 1
    /\ last' = "ViewBody"
    /\ selected_message' = Some(index)
    /\ LET msg == Get(messages, index) IN
       IF IsSome(msg)
       THEN /\ status_message' = "Loading message..."
            /\ tasks' = Spawn(tasks, {BodyTask(Unwrap(msg).envelope_hash),
                                      AutoMarkReadTimer(Unwrap(msg).envelope_hash)})
       ELSE UNCHANGED << status_message, tasks >>
    /\ UNCHANGED << setupVars, session, cache, folderVars, selected_folder,
                    listVars, preview_body, is_syncing, cacheVars, inbox,
                    netVars, acctVars, uiVars >>

\* The displayed message, when it is the one of the envelope and unread.
DisplayedUnread(envelope_hash) ==
    LET msg == IF IsSome(selected_message)
               THEN Get(messages, Unwrap(selected_message)) ELSE None
    IN  /\ IsSome(msg)
        /\ Unwrap(msg).envelope_hash = envelope_hash
        /\ ~Unwrap(msg).is_read

\* Message::AutoMarkRead(envelope_hash): the displayed message of that
\* envelope is marked read as a ToggleRead would mark it, unless it is read
\* already or auto_read_suppressed is set.
AutoMarkRead(r) ==
    /\ r.kind = "AutoMarkRead"
    /\ inbox' = Take(inbox, r)
    /\ Handled("AutoMarkRead")
    /\ IF DisplayedUnread(r.envelope_hash) /\ ~auto_read_suppressed
       THEN LET index == Unwrap(selected_message)
                msg == messages[index + 1]
            IN
            /\ messages' = [messages EXCEPT ![index + 1].is_read = TRUE]
            /\ tasks' = Spawn(tasks,
                  ToggleTasks(msg, flags_to_u8(TRUE, msg.is_starred),
                              flags_to_u8(FALSE, msg.is_starred), "set_seen"))
       ELSE UNCHANGED << messages, tasks >>
    /\ UNCHANGED << setupVars, session, cache, folderVars, selected_folder,
                    messages_offset, has_more_messages, viewVars, is_syncing,
                    status_message, cacheVars, netVars >>

\* Displaying messages of the loaded INBOX of InitMutate and toggling their
\* read flag while the dwell timers run; the body loads and the cache and
\* server operations of the flag changes stay spawned.
NextAutoRead ==
    \/ \E t \in Spawned : RunAutoMarkReadTimer(t)
    \/ \E r \in Delivered : AutoMarkRead(r)
    \/ \E index \in MessageRows : ViewBody(index)
    \/ \E index \in MessageRows : ToggleRead(index)

SpecAutoRead == InitMutate /\ [][NextAutoRead]_vars

\* The set_flags operations spawned for an envelope.
SetFlagsSpawned(envelope_hash) ==
    { t \in Spawned : t.kind = "set_flags" /\ t.envelope_hash = envelope_hash }

\* The user displayed the message of the envelope, which was read, and then
\* toggled it back to unread: the two requests of the run so far were the
\* ViewBody and the ToggleRead of its row, in this order, and the dwell
\* timer the display started has not been handled.
RevertedToUnread(envelope_hash) ==
    /\ intents = 2
    /\ last = "ToggleRead"
    /\ DisplayedUnread(envelope_hash)
    /\ \E t \in SetFlagsSpawned(envelope_hash) : t.new_flags % 2 = 0

MaxLines == 3
RunLengths == {0, 1, 18, 37}
LineChars == {"a", "U+00E9"}

\* The blanks of ASCII that are written by their escapes, and their code
\* points; every other character written as itself is a graphic character
\* of ASCII.
AsciiBlanks == (" " :> 32) @@ ("\n" :> 10) @@ ("\t" :> 9) @@ ("\r" :> 13)
               @@ ("\f" :> 12)

\* The value of a hexadecimal number.
HexDigit ==
    ("0" :> 0) @@ ("1" :> 1) @@ ("2" :> 2) @@ ("3" :> 3) @@ ("4" :> 4)
    @@ ("5" :> 5) @@ ("6" :> 6) @@ ("7" :> 7) @@ ("8" :> 8) @@ ("9" :> 9)
    @@ ("A" :> 10) @@ ("B" :> 11) @@ ("C" :> 12) @@ ("D" :> 13)
    @@ ("E" :> 14) @@ ("F" :> 15)
RECURSIVE HexValue(_)
HexValue(h) ==
    IF Len(h) = 0 THEN 0
    ELSE HexValue(SubSeq(h, 1, Len(h) - 1)) * 16
         + HexDigit[SubSeq(h, Len(h), Len(h))]

\* The code points of the characters the parts below are drawn from,
\* worked out once.
DrawnCodePoints ==
    [c \in {"U+00E9", "U+000B", "U+00A0"} |-> HexValue(SubSeq(c, 3, Len(c)))]

\* A character written as its code point, and the code point: the
\* hexadecimal number after "U+".
IsCodePoint(c) ==
    \/ c \in DOMAIN DrawnCodePoints
    \/ Len(c) > 2 /\ SubSeq(c, 1, 2) = "U+"
CodePoint(c) ==
    IF c \in DOMAIN DrawnCodePoints THEN DrawnCodePoints[c]
    ELSE HexValue(SubSeq(c, 3, Len(c)))

\* The code points with the property White_Space: U+0009 to U+000D,
\* U+0020, U+0085, U+00A0, U+1680, U+2000 to U+200A, U+2028, U+2029,
\* U+202F, U+205F and U+3000.
White_Space ==
    (9..13) \cup {32, 133, 160, 5760} \cup (8192..8202)
    \cup {8232, 8233, 8239, 8287, 12288}

\* 512 * 1024
MAX_HTML_BYTES == 524288
MAX_MD_CHARS == 200000

\* char::is_whitespace, which str::trim goes by (mime.rs:62): the code
\* points of White_Space.
is_whitespace(c) ==
    IF IsCodePoint(c) THEN CodePoint(c) \in White_Space
    ELSE c \in DOMAIN AsciiBlanks

\* char::len_utf8: one byte below U+0080, two below U+0800, three below
\* U+10000, four from there on.
len_utf8(c) ==
    IF ~IsCodePoint(c) THEN 1
    ELSE LET n == CodePoint(c) IN
         IF n < 128 THEN 1
         ELSE IF n < 2048 THEN 2
         ELSE IF n < 65536 THEN 3
         ELSE 4

\* str::len: the length in bytes.
RECURSIVE len(_)
len(s) == IF s = <<>> THEN 0 ELSE len_utf8(Head(s)) + len(Tail(s))

\* str::trim_start and str::trim_end.
RECURSIVE trim_start(_)
trim_start(s) ==
    IF s # <<>> /\ is_whitespace(Head(s)) THEN trim_start(Tail(s)) ELSE s

RECURSIVE trim_end(_)
trim_end(s) ==
    IF s # <<>> /\ is_whitespace(s[Len(s)])
    THEN trim_end(SubSeq(s, 1, Len(s) - 1))
    ELSE s

\* str::trim.
trim(s) == trim_end(trim_start(s))

\* str::lines().count(): the lines end at "\n"; a final line without one
\* counts, an empty rest after the last "\n" does not.
lines_count(s) ==
    IF s = <<>> THEN 0
    ELSE Cardinality({ i \in 1..Len(s) : s[i] = "\n" })
         + (IF s[Len(s)] = "\n" THEN 0 ELSE 1)

\* A junk test that counts characters where the code counts bytes.
plain_is_junk_chars(s) ==
    LET t == trim(s) IN
    t = <<>> \/ Len(t) < 40 \/ lines_count(t) <= 2

\* plain_is_junk (mime.rs:60-64).
plain_is_junk(s) ==
    LET t == trim(s) IN
    t = <<>> \/ len(t) < 40 \/ lines_count(t) <= 2

\* The tags clean_email_html keeps (mime.rs:78-95).
AllowedTags ==
    { << "p" >>,
      << "b", "r" >>,
      << "h", "r" >>,
      << "b", "l", "o", "c", "k", "q", "u", "o", "t", "e" >>,
      << "p", "r", "e" >>,
      << "h", "1" >>,
      << "h", "2" >>,
      << "h", "3" >>,
      << "h", "4" >>,
      << "h", "5" >>,
      << "h", "6" >>,
      << "b" >>,
      << "s", "t", "r", "o", "n", "g" >>,
      << "i" >>,
      << "e", "m" >>,
      << "c", "o", "d", "e" >>,
      << "s" >>,
      << "d", "e", "l" >>,
      << "u" >>,
      << "s", "m", "a", "l", "l" >>,
      << "s", "u", "b" >>,
      << "s", "u", "p" >>,
      << "u", "l" >>,
      << "o", "l" >>,
      << "l", "i" >>,
      << "a" >> }

\* The document as tags and text characters: a token is a tag with the
\* text between its angle brackets, or one character of text, and carries
\* the target of a link when it is the opening tag of one; an unterminated
\* tag ends the document.
HtmlToken(tag, v, href) == [tag |-> tag, v |-> v, href |-> href]

RECURSIVE HtmlTokens(_)
HtmlTokens(s) ==
    IF s = <<>> THEN <<>>
    ELSE IF Head(s) = "<"
    THEN LET ends == { j \in 2..Len(s) : s[j] = ">" } IN
         IF ends = {} THEN <<>>
         ELSE LET j == CHOOSE e \in ends : \A o \in ends : e <= o IN
              << HtmlToken(TRUE, SubSeq(s, 2, j - 1), <<>>) >>
                  \o HtmlTokens(SubSeq(s, j + 1, Len(s)))
    ELSE << HtmlToken(FALSE, << Head(s) >>, <<>>) >> \o HtmlTokens(Tail(s))

\* The element name of a tag, opening or closing: the text after the slash
\* of a closing tag, up to the first blank or slash, where the attributes
\* begin or the tag closes itself.
TagName(v) ==
    LET name == IF v # <<>> /\ Head(v) = "/" THEN Tail(v) ELSE v
        stops == { i \in 1..Len(name) : is_whitespace(name[i]) \/ name[i] = "/" }
    IN  IF stops = {} THEN name
        ELSE SubSeq(name, 1, (CHOOSE i \in stops : \A o \in stops : i <= o) - 1)

\* The value of the href attribute of a tag, written href="..." after a
\* blank; empty when the tag has none.
HrefKey == << " ", "h", "r", "e", "f", "=", "\"" >>

Href(v) ==
    LET starts == { i \in 1..Len(v) :
                      /\ i + Len(HrefKey) - 1 <= Len(v)
                      /\ SubSeq(v, i, i + Len(HrefKey) - 1) = HrefKey }
    IN  IF starts = {} THEN <<>>
        ELSE LET from == (CHOOSE i \in starts : \A o \in starts : i <= o)
                            + Len(HrefKey)
                 ends == { k \in from..Len(v) : v[k] = "\"" }
             IN  IF ends = {} THEN <<>>
                 ELSE SubSeq(v, from,
                             (CHOOSE k \in ends : \A o \in ends : k <= o) - 1)

\* The elements ammonia removes together with their content.
CleanContentTags ==
    { << "s", "c", "r", "i", "p", "t" >>, << "s", "t", "y", "l", "e" >> }

\* The tokens of a document as the sanitizer leaves them; inside is the
\* name of the script or style element being dropped, or empty.  A tag
\* outside the allowed set is removed and the text inside it kept; a tag of
\* the set is kept by its name, whatever attributes it carries, a link with
\* its href.
RECURSIVE CleanTokens(_, _)
CleanTokens(toks, inside) ==
    IF toks = <<>> THEN <<>>
    ELSE LET tok == Head(toks)
             name == TagName(tok.v)
             closing == tok.v # <<>> /\ Head(tok.v) = "/"
         IN
         IF inside # <<>>
         THEN CleanTokens(Tail(toks),
                          IF tok.tag /\ closing /\ name = inside THEN <<>>
                          ELSE inside)
         ELSE IF ~tok.tag THEN << tok >> \o CleanTokens(Tail(toks), <<>>)
         ELSE IF name \in CleanContentTags
         THEN CleanTokens(Tail(toks), IF closing THEN <<>> ELSE name)
         ELSE IF name \in AllowedTags
         THEN << HtmlToken(TRUE,
                           IF closing THEN << "/" >> \o name ELSE name,
                           IF name = << "a" >> /\ ~closing THEN Href(tok.v)
                           ELSE <<>>) >>
                  \o CleanTokens(Tail(toks), <<>>)
         ELSE CleanTokens(Tail(toks), <<>>)

\* clean_email_html (mime.rs:66-101): ammonia with the allowed tags.  The
\* documents drawn are well-formed, in lower case, without character
\* references or comments, and their links are https.
clean_email_html(html) == CleanTokens(HtmlTokens(html), <<>>)

\* The markdown of the tokens of a cleaned document; href is the target of
\* the link that is open.  Text stands as it is, a paragraph ends in a
\* blank line, bold text is in ** and italic text in *, a link is written
\* [text](target), other tags leave nothing.
RECURSIVE MarkdownOf(_, _)
MarkdownOf(toks, href) ==
    IF toks = <<>> THEN <<>>
    ELSE LET tok == Head(toks)
             name == TagName(tok.v)
         IN
         IF ~tok.tag THEN tok.v \o MarkdownOf(Tail(toks), href)
         ELSE IF tok.v = << "/", "p" >>
         THEN << "\n", "\n" >> \o MarkdownOf(Tail(toks), href)
         ELSE IF name \in { << "b" >>, << "s", "t", "r", "o", "n", "g" >> }
         THEN << "*", "*" >> \o MarkdownOf(Tail(toks), href)
         ELSE IF name \in { << "i" >>, << "e", "m" >> }
         THEN << "*" >> \o MarkdownOf(Tail(toks), href)
         ELSE IF tok.v = << "a" >> /\ tok.href # <<>>
         THEN << "[" >> \o MarkdownOf(Tail(toks), tok.href)
         ELSE IF tok.v = << "/", "a" >> /\ href # <<>>
         THEN << "]", "(" >> \o href \o << ")" >> \o MarkdownOf(Tail(toks), <<>>)
         ELSE MarkdownOf(Tail(toks), href)

\* html2md::parse_html on a cleaned document: the markdown of its tokens,
\* without surrounding blank space.
parse_html(clean) == trim(MarkdownOf(clean, <<>>))

\* The outcome of a call that panicked.
Panicked == << "panic" >>

\* The prefixes of s that are new_len bytes long: one, or none when byte
\* new_len is inside a character.
BytePrefixes(s, new_len) ==
    { SubSeq(s, 1, k) : k \in { j \in 0..Len(s) : len(SubSeq(s, 1, j)) = new_len } }

\* String::truncate(new_len) (mime.rs:47): the string when it has no more
\* than new_len bytes, else its first new_len bytes; it panics when byte
\* new_len is inside a character.
truncate(md, new_len) ==
    IF new_len >= len(md) THEN md
    ELSE IF BytePrefixes(md, new_len) = {} THEN Panicked
    ELSE CHOOSE t \in BytePrefixes(md, new_len) : TRUE

NoDisplayableContent ==
    << "[", "N", "o", " ", "d", "i", "s", "p", "l", "a", "y", "a", "b", "l", "e", " ", "c", "o", "n", "t", "e", "n", "t", "]" >>

\* render_body_markdown (mime.rs:34-56).  &html[..n] panics when byte n is
\* inside a character.
render_body_markdown(plain, html) ==
    IF IsSome(plain) /\ ~plain_is_junk(Unwrap(plain)) THEN Unwrap(plain)
    ELSE IF IsSome(html)
    THEN LET h == Unwrap(html)
             cut == BytePrefixes(h, Min(len(h), MAX_HTML_BYTES))
         IN  IF cut = {} THEN Panicked
             ELSE LET md == parse_html(clean_email_html(CHOOSE t \in cut : TRUE))
                  IN  truncate(md, MAX_MD_CHARS)
    ELSE IF IsSome(plain) THEN Unwrap(plain)
    ELSE NoDisplayableContent

\* The plain parts drawn: lines joined by "\n", with or without white
\* space before (a blank line and a space, a vertical tab) and after (a
\* newline, a no-break space).
Run(ch, n) == [i \in 1..n |-> ch]

RECURSIVE Join(_)
Join(ls) ==
    IF ls = <<>> THEN <<>>
    ELSE IF Len(ls) = 1 THEN Head(ls)
    ELSE Head(ls) \o << "\n" >> \o Join(Tail(ls))

PlainLines == { Run(ch, n) : ch \in LineChars, n \in RunLengths }

PlainParts ==
    { lead \o Join(ls) \o trail :
        lead \in { <<>>, << "\n", " " >>, << "U+000B" >> },
        trail \in { <<>>, << "\n" >>, << "U+00A0" >> },
        ls \in UNION { [1..k -> PlainLines] : k \in 0..MaxLines } }

\* The target of the link drawn.
LinkTarget == << "h", "t", "t", "p", "s", ":", "/", "/", "e", ".", "x" >>

\* The HTML parts drawn: an empty document, a paragraph, a paragraph in a
\* layout table cell, bold text, a paragraph with a class after a style
\* sheet, and a paragraph with a link.
HtmlParts ==
    { <<>>,
      << "<", "p", ">", "a", "b", "<", "/", "p", ">" >>,
      << "<", "t", "d", ">", "<", "p", ">", "a", "b", "<", "/", "p", ">", "<", "/", "t", "d", ">" >>,
      << "<", "b", ">", "a", "<", "/", "b", ">" >>,
      << "<", "s", "t", "y", "l", "e", ">", "x", "<", "/", "s", "t", "y",
         "l", "e", ">", "<", "p", " ", "c", "l", "a", "s", "s", "=", "\"",
         "c", "\"", ">", "a", "<", "/", "p", ">" >>,
      << "<", "p", ">", "c", " ", "<", "a", " ", "h", "r", "e", "f", "=",
         "\"" >> \o LinkTarget
         \o << "\"", ">", "h", "<", "/", "a", ">", "<", "/", "p", ">" >> }

\* One body to render: the program is as constructed without a
\* configuration, the parts are any of those drawn.
InitRender ==
    /\ config = FALSE
    /\ session = FALSE
    /\ cache = FALSE
    /\ folders = <<>>
    /\ folder_map = {}
    /\ selected_folder = None
    /\ messages = <<>>
    /\ selected_message = None
    /\ messages_offset = 0
    /\ has_more_messages = FALSE
    /\ preview_body = <<>>
    /\ is_syncing = FALSE
    /\ status_message = "Setup required"
    /\ show_setup_dialog = TRUE
    /\ password_only_mode = FALSE
    /\ setup_error = None
    /\ cache_folders = <<>>
    /\ cache_msgs = [mh \in Mailboxes |-> <<>>]
    /\ cache_bodies = {}
    /\ tasks = EmptyBag
    /\ inbox = EmptyBag
    /\ net_folders = None
    /\ net_msgs = [mh \in Mailboxes |-> None]
    /\ last = "init"
    /\ intents = 0
    /\ NoRegistry
    /\ collapsed_threads = {}
    /\ visible_indices = <<>>
    /\ auto_read_suppressed = FALSE
    /\ watch_ended = {}
    /\ watch_streams = NoStreams
    /\ text_plain \in {None} \cup { Some(p) : p \in PlainParts }
    /\ text_html \in {None} \cup { Some(h) : h \in HtmlParts }
    /\ rendered = None

\* The call render_body_markdown(text_plain, text_html).
RenderBodyMarkdown ==
    /\ rendered = None
    /\ rendered' = Some(render_body_markdown(text_plain, text_html))
    /\ last' = "render_body_markdown"
    /\ UNCHANGED << appVars, cacheVars, tasks, inbox, netVars, intents,
                    acctVars, collapsed_threads, visible_indices,
                    auto_read_suppressed, watch_ended, watch_streams, text_plain, text_html >>

NextRender == RenderBodyMarkdown

SpecRender == InitRender /\ [][NextRender]_vars

\* Junk as the claim words it, on the span from the first to the last
\* character that is not blank: no such character, fewer than 40 bytes in
\* the span, or at most one newline in it.
JunkAsClaimed(s) ==
    LET content == { i \in 1..Len(s) : ~is_whitespace(s[i]) } IN
    \/ content = {}
    \/ LET lo == CHOOSE i \in content : \A j \in content : i <= j
           hi == CHOOSE i \in content : \A j \in content : j <= i
       IN  \/ len(SubSeq(s, lo, hi)) < 40
           \/ Cardinality({ i \in lo..hi : s[i] = "\n" }) <= 1

\* The markdown of the HTML part.
HtmlRendered ==
    truncate(parse_html(clean_email_html(Unwrap(text_html))), MAX_MD_CHARS)

\* C28: the result of render_body_markdown is the plain part verbatim when
\* there is one and it is not junk; otherwise the markdown of the HTML part
\* when there is one; otherwise the junk plain part verbatim; otherwise the
\* placeholder.  Junk is: empty after trimming, under 40 bytes after
\* trimming, or at most 2 lines after trimming.
C28_RenderPrecedence ==
    IsSome(rendered) =>
        Unwrap(rendered) =
            IF IsSome(text_plain) /\ ~JunkAsClaimed(Unwrap(text_plain))
            THEN Unwrap(text_plain)
            ELSE IF IsSome(text_html) THEN HtmlRendered
            ELSE IF IsSome(text_plain) THEN Unwrap(text_plain)
            ELSE NoDisplayableContent

\* A plain part of three lines and 39 bytes was passed over for the HTML
\* part.
C28_Witness ==
    /\ IsSome(rendered)
    /\ IsSome(text_plain)
    /\ IsSome(text_html)
    /\ len(trim(Unwrap(text_plain))) = 39
    /\ lines_count(trim(Unwrap(text_plain))) = 3
    /\ Unwrap(rendered) = << "a", "b" >>
    /\ Unwrap(rendered) # Unwrap(text_plain)



\* ------------------------------------------------------------------ claims: load more

\* C29: LoadMoreMessages advances the offset by one page and spawns one
\* cache read at the new offset; and when the result of a cache read at an
\* offset above 0 is handled, its page is appended to the message list and
\* has_more_messages is whether the page is full, whatever happened to the
\* offset while the read was under way.
C29_LoadMoreAppends ==
    /\ [][LoadMoreMessages =>
             /\ messages_offset' = messages_offset + DEFAULT_PAGE_SIZE
             /\ (cache /\ IsSome(SelectedFolderOf(selected_folder, folders)))
                  => tasks' = Spawn(tasks,
                        {LoadMessagesTask(SelectedMailbox, messages_offset')})]_vars
    /\ [][\A r \in Delivered :
             (CachedMessagesLoaded(r) /\ r.ok /\ r.offset > 0)
                 => /\ messages' = messages \o r.messages
                    /\ has_more_messages' = PageIsFull(Len(r.messages))]_vars



\* ------------------------------------------------------------------ watch health and the periodic refresh
\* AppModel::subscription (mod.rs:277-306): one watch stream per account
\* that holds a session, and the periodic-sync stream while any account
\* holds one.  watch_ended holds << account id, session >> of the streams
\* that have terminated; a later session of the account gets a new stream.
\* The handler of ImapEvent (watch.rs) is not in the tree: WatchError and
\* WatchEnded follow the specification, section 4.6.

\* has_any_session (mod.rs:290)
has_any_session == \E i \in 1..Len(accounts) : accounts[i].session # 0

\* The watch stream of the i-th account's session is running.
WatchAlive(i) ==
    /\ accounts[i].session # 0
    /\ << accounts[i].id, accounts[i].session >> \notin watch_ended

\* ImapWatchEvent::WatchError, ImapWatchEvent::WatchEnded (types.rs:269-288)
WatchEnds == {"WatchError", "WatchEnded"}

\* A handler of WatchError and WatchEnded that takes the end of the stream
\* for the end of the connection: the account loses its session and is in
\* Error.
ImapWatchDisconnects(id, ev) ==
    /\ ev \in WatchEnds
    /\ IsSome(account_index(id))
    /\ LET i == Unwrap(account_index(id)) + 1 IN
       /\ WatchAlive(i)
       /\ watch_ended' = watch_ended \cup {<< id, accounts[i].session >>}
       /\ accounts' = [accounts EXCEPT ![i].session = 0,
                                       ![i].conn_state = "Error"]
    /\ last' = ev
    /\ UNCHANGED << appVars, cacheVars, tasks, inbox, netVars, intents,
                    active_account, setup_model, keyring, cache_accounts,
                    connects_started, collapsed_threads, visible_indices,
                    auto_read_suppressed, watch_streams, mimeVars >>

\* Message::ImapEvent(account_id, WatchError(_) | WatchEnded): the stream
\* of the account's session has terminated; nothing of the registry changes.
ImapWatchTerminated(id, ev) ==
    /\ ev \in WatchEnds
    /\ IsSome(account_index(id))
    /\ LET i == Unwrap(account_index(id)) + 1 IN
       /\ WatchAlive(i)
       /\ watch_ended' = watch_ended \cup {<< id, accounts[i].session >>}
    /\ last' = ev
    /\ UNCHANGED << appVars, cacheVars, tasks, inbox, netVars, intents,
                    acctVars, collapsed_threads, visible_indices,
                    auto_read_suppressed, watch_streams,
                    mimeVars >>

\* Message::Refresh as it waits for update().
RefreshMessage == Result("Refresh", TRUE)

RefreshQueued == RefreshMessage \in Delivered

\* A run lets at most MaxQueued Refresh messages wait for update() at a
\* time.
MaxQueued == 2
RefreshRoom == CopiesIn(RefreshMessage, inbox) < MaxQueued

\* The periodic-sync subscription (mod.rs:289-306): while some account
\* holds a session the stream exists and its interval sends
\* Message::Refresh, whether or not update() has taken the Refresh sent
\* before: the channel of the stream (mod.rs:295) is emptied by the runtime
\* that polls the stream.  The watch streams play no part.
PeriodicRefresh ==
    /\ has_any_session
    /\ RefreshRoom
    /\ Deliver(RefreshMessage)
    /\ UNCHANGED << appVars, cacheVars, tasks, netVars, last, intents,
                    acctVars, uiVars >>

\* Message::Refresh handled for the registry: a folder sync of every
\* account that holds a session, with the status line of Message::Refresh
\* (app.rs:1078-1094).
AccountRefresh(r) ==
    /\ r.kind = "Refresh"
    /\ inbox' = Take(inbox, r)
    /\ AccountIntent("Refresh")
    /\ IF has_any_session
       THEN /\ is_syncing' = TRUE
            /\ status_message' = "Refreshing..."
            /\ tasks' = Spawn(tasks,
                  { AccountSyncFoldersTask(accounts[i].id, accounts[i].session) :
                      i \in { j \in 1..Len(accounts) : accounts[j].session # 0 } })
       ELSE UNCHANGED << is_syncing, status_message, tasks >>
    /\ UNCHANGED << setupVars, session, cache, folderVars, selected_folder,
                    listVars, viewVars, cacheVars, netVars, acctVars >>

\* Accounts lose their watch streams and are reconnected by the user while
\* the periodic refresh runs; the connects and the folder syncs stay
\* spawned, so a reconnected account is without a session from then on.
NextBackstop ==
    \/ \E id \in AccountIds : ForceReconnect(id)
    \/ \E id \in AccountIds : \E ev \in WatchEnds : ImapWatchTerminated(id, ev)
    \/ PeriodicRefresh
    \/ \E r \in Delivered : AccountRefresh(r)

\* The registry after the connects of some accounts have succeeded and been
\* handled, the others still waiting for theirs: a connected account holds
\* the session of its first connect and its folder sync is spawned.
InitBackstop ==
    \E n \in 1..MaxAccounts : \E up \in SUBSET (1..n) :
        /\ accounts = [i \in 1..n |->
                          IF i \in up THEN AccountState(i, 1, "Connected", <<>>)
                          ELSE AccountState(i, 0, "Connecting", <<>>)]
        /\ active_account = None
        /\ setup_model = None
        /\ keyring = Credentials(1..n)
        /\ cache = FALSE
        /\ cache_accounts = {}
        /\ connects_started = [id \in AccountIds |-> IF id <= n THEN 1 ELSE 0]
        /\ tasks = SetToBag({ AccountConnectTask(i, 1) : i \in (1..n) \ up }
                            \cup { AccountSyncFoldersTask(i, 1) : i \in up })
        /\ inbox = EmptyBag
        /\ messages = <<>>
        /\ selected_folder = None
        /\ selected_message = None
        /\ preview_body = <<>>
        /\ messages_offset = 0
        /\ has_more_messages = FALSE
        /\ status_message = IF up = {} THEN "Starting up..."
                            ELSE "Connected. Loading folders..."
        /\ config = TRUE
        /\ session = FALSE
        /\ folders = <<>>
        /\ folder_map = {}
        /\ is_syncing = (up # {})
        /\ show_setup_dialog = FALSE
        /\ password_only_mode = FALSE
        /\ setup_error = None
        /\ cache_folders = <<>>
        /\ cache_msgs = [mh \in Mailboxes |-> <<>>]
        /\ cache_bodies = {}
        /\ net_folders = None
        /\ net_msgs = [mh \in Mailboxes |-> None]
        /\ last = IF up = {} THEN "init" ELSE "AccountConnected"
        /\ intents = 0
        /\ FreshView

SpecBackstop == InitBackstop /\ [][NextBackstop]_vars

\* The interval of the periodic-sync stream keeps ticking while the
\* subscription exists (mod.rs:296-302).
SpecBackstopLive == SpecBackstop /\ WF_vars(PeriodicRefresh)

\* C30: a WatchError or WatchEnded leaves the registry, and so every
\* account's connection state, as it was; while an account holds a session
\* the periodic Refresh can be sent, whether or not a watch stream is
\* running and whether or not the one sent before has been taken (up to the
\* MaxQueued messages a run lets wait); and whenever an account holds a
\* session a Refresh is waiting for update() or is sent later, unless the
\* last session is lost first.
C30_RefreshBackstop ==
    /\ [][\A id \in AccountIds : \A ev \in WatchEnds :
             ImapWatchTerminated(id, ev) => accounts' = accounts]_vars
    /\ []((has_any_session /\ RefreshRoom) => ENABLED PeriodicRefresh)
    /\ (has_any_session ~> (RefreshQueued \/ ~has_any_session))

\* A Refresh was handled and two more wait for update(), sent while an
\* account held a session and no watch stream was running any more.
C30_Witness ==
    /\ last = "Refresh"
    /\ CopiesIn(RefreshMessage, inbox) > 1
    /\ has_any_session
    /\ watch_ended # {}
    /\ \A i \in 1..Len(accounts) : ~WatchAlive(i)
    /\ \E i \in 1..Len(accounts) : accounts[i].conn_state = "Connected"



\* ------------------------------------------------------------------ claims: folder map invariant

\* C31: in every reachable state folder_map holds exactly the
\* path -> mailbox hash pairs of the current folder list.
C31_FolderMapMatchesFolders == folder_map = PathMap(folders)

\* The cached folder list has been installed over a session whose folder
\* sync fetched other folders, and the map has the entries of the cached
\* list.
C31_Witness ==
    /\ last = "CachedFoldersLoaded"
    /\ session
    /\ folders # <<>>
    /\ IsSome(net_folders)
    /\ Unwrap(net_folders) # folders
    /\ Unwrap(net_folders) # <<>>
    /\ folder_map = PathMap(folders)



\* ------------------------------------------------------------------ claims: selection across a folder sync

\* C32: when a successful folder sync replaces the folder list while a
\* folder is selected, the selection afterwards is the position of that
\* folder's path in the new list (none if the path is gone), and a message
\* sync the step spawns fetches the mailbox of that path.
C32_SyncKeepsSelectedPath ==
    [][\A r \in Delivered :
          (/\ SyncFoldersComplete(r)
           /\ r.ok
           /\ IsSome(SelectedFolderOf(selected_folder, folders)))
            => LET path == Unwrap(SelectedFolderOf(selected_folder, folders)).path
                   kept == Position(r.folders, path)
               IN  /\ selected_folder' = kept
                   /\ \A t \in DOMAIN tasks' :
                         (t.kind = "sync_messages"
                            /\ CopiesIn(t, tasks') > CopiesIn(t, tasks))
                           => /\ IsSome(kept)
                              /\ t.mailbox_hash =
                                   r.folders[Unwrap(kept) + 1].mailbox_hash]_vars



\* ------------------------------------------------------------------ claims: preview of the selection

\* C33: whenever the preview shows a message body, a message is selected
\* and the body is that of the selected message.
C33_PreviewIsSelectedBody ==
    (Len(preview_body) = 2 /\ preview_body[1] = "body")
        => /\ IsSome(selected_message)
           /\ IsSome(Get(messages, Unwrap(selected_message)))
           /\ preview_body =
                BodyOf(Unwrap(Get(messages, Unwrap(selected_message))).envelope_hash)



\* ------------------------------------------------------------------ scenario: triage
\* Trash and Archive on a message list of two pages or more with any row
\* selected; the cache and server operations of the moves stay spawned.
NextTriage ==
    \/ \E index \in MessageRows : TrashMessage(index)
    \/ \E index \in MessageRows : ArchiveMessage(index)

SpecTriage == InitThreads /\ [][NextTriage]_vars

\* C34: a Trash or Archive of the message at a valid index, with the
\* destination folder known, leaves the list without exactly that message
\* and in the same order; and a selection of another message designates
\* that same message afterwards.
C34_RemovalKeepsSelectedMessage ==
    [][\A index \in MessageRows :
          (/\ \/ TrashMessage(index) /\ IsSome(MoveTarget("Trash"))
              \/ ArchiveMessage(index) /\ IsSome(MoveTarget("Archive"))
           /\ IsSome(Get(messages, index)))
            => /\ messages' = Remove(messages, index)
               /\ (/\ IsSome(selected_message)
                   /\ Unwrap(selected_message) # index
                   /\ IsSome(Get(messages, Unwrap(selected_message))))
                    => /\ IsSome(selected_message')
                       /\ Get(messages', Unwrap(selected_message'))
                            = Get(messages, Unwrap(selected_message))]_vars



\* ------------------------------------------------------------------ claims: valid selection

\* C35: in every reachable state selected_message is None or an index of
\* the current message list.
C35_SelectionInRange ==
    IsSome(selected_message) => IsSome(Get(messages, Unwrap(selected_message)))



\* ------------------------------------------------------------------ claims: syncing indicator

\* A connect, a folder sync or a message sync has been started and its
\* result has not been handled yet.
SyncInFlight ==
    \/ \E t \in Spawned : t.kind \in {"connect", "sync_folders", "sync_messages"}
    \/ \E r \in Delivered :
          r.kind \in {"Connected", "SyncFoldersComplete", "SyncMessagesComplete"}

\* C36: is_syncing is true in every state where a connect, a folder sync or
\* a message sync is in flight.
C36_SyncingWhileInFlight == SyncInFlight => is_syncing



\* ------------------------------------------------------------------ claims: removing another account

\* C37: an AccountRemove of a registered account other than the active one
\* leaves the active index designating the account it designated before,
\* and leaves the message list, the selected folder and the preview as
\* they were.
C37_RemoveOtherKeepsActive ==
    [][\A id \in AccountIds :
          (/\ AccountRemove(id)
           /\ IsSome(account_index(id))
           /\ IsSome(active_account)
           /\ IsSome(Get(accounts, Unwrap(active_account)))
           /\ active_account # account_index(id))
            => /\ IsSome(active_account')
               /\ IsSome(Get(accounts', Unwrap(active_account')))
               /\ Unwrap(Get(accounts', Unwrap(active_account'))).id
                     = Unwrap(Get(accounts, Unwrap(active_account))).id
               /\ UNCHANGED << messages, selected_folder, preview_body >>]_vars

\* The first account was removed while the second was the active one: the
\* second is now at index 0, still active, with its page on display.
C37_Witness ==
    /\ last = "AccountRemove"
    /\ intents = 1
    /\ Len(accounts) = 1
    /\ accounts[1].id = 2
    /\ active_account = Some(0)
    /\ messages # <<>>
    /\ selected_folder = Some(0)
    /\ preview_body # <<>>


\* ------------------------------------------------------------------ claims: the account registry

\* The account dialogs and the removal of accounts: new accounts, edits,
\* password prompts after a failed sign-in, submits and removals, with the
\* connects they start.
NextRegistry ==
    \/ AccountAdd
    \/ \E id \in AccountIds : AccountEdit(id)
    \/ \E valid \in BOOLEAN : SetupSubmitAccount(valid)
    \/ SetupCancelAccount
    \/ \E id \in AccountIds : AccountRemove(id)
    \/ \E t \in Spawned : RunAccountConnect(t)
    \/ \E t \in Spawned : RunRemoveAccount(t)
    \/ \E r \in Delivered : AccountConnected(r)

SpecRegistry == InitAccounts /\ [][NextRegistry]_vars

\* No two entries of the registry have the same account id.
UniqueAccountIds ==
    \A i, j \in 1..Len(accounts) :
        accounts[i].id = accounts[j].id => i = j

\* A submit that started a connect for account id.
SubmittedFor(id) ==
    /\ last' = "SetupSubmit"
    /\ intents' = intents + 1
    /\ connects_started'[id] = connects_started[id] + 1

\* C38: no two accounts of the registry ever share an account id; a valid
\* submit for an id that is registered leaves the registry as long as it was
\* and the ids where they were, and resets that account's session to none and
\* its state to Connecting.
C38_AccountIdsUnique ==
    /\ []UniqueAccountIds
    /\ [][\A id \in AccountIds :
            (SubmittedFor(id) /\ IsSome(account_index(id))) =>
                /\ Len(accounts') = Len(accounts)
                /\ \A i \in 1..Len(accounts) : accounts'[i].id = accounts[i].id
                /\ accounts'[Unwrap(account_index(id)) + 1].session = 0
                /\ accounts'[Unwrap(account_index(id)) + 1].conn_state =
                       "Connecting"
                /\ \A i \in 1..Len(accounts) :
                       i # Unwrap(account_index(id)) + 1 =>
                           accounts'[i] = accounts[i]]_vars

\* The edit of a connected account was submitted: the registry still holds
\* two accounts, the edited one without a session and connecting again, its
\* second connect started.
C38_Witness ==
    /\ last = "SetupSubmit"
    /\ Len(accounts) = 2
    /\ accounts[1].id = 1
    /\ accounts[1].session = 0
    /\ accounts[1].conn_state = "Connecting"
    /\ connects_started[1] = 2
    /\ accounts[2].conn_state = "Connected"
    /\ setup_model = None


\* C39: a SetupSubmit whose validation or config save fails keeps the setup
\* dialog open with an error in it, leaves the registry with every account's
\* session and connection state as it was, and starts no connect task.
C39_RejectedSubmitChangesNothing ==
    [][SetupSubmitAccount(FALSE) =>
          /\ IsSome(setup_model')
          /\ setup_model' = setup_model
          /\ IsSome(setup_error')
          /\ accounts' = accounts
          /\ active_account' = active_account
          /\ tasks' = tasks
          /\ connects_started' = connects_started]_vars

\* The edit of a connected account was submitted and the config file could
\* not be saved: the dialog is open with the error, both accounts are still
\* connected on their sessions and no task is spawned.
C39_Witness ==
    /\ last = "SetupSubmit"
    /\ setup_model = Some(1)
    /\ setup_error = Some("Failed to save config")
    /\ Len(accounts) = 2
    /\ \A i \in 1..2 : /\ accounts[i].conn_state = "Connected"
                       /\ accounts[i].session = 1
    /\ Spawned = {}
    /\ connects_started = [id \in AccountIds |-> 1]


\* ------------------------------------------------------------------ watch streams and the registry
\* AppModel::subscription (mod.rs:277-288) gives the stream of the account
\* at index i the id "imap-watch-i"; the stream and the closure that tags
\* its events hold the session and the account id of the account that was
\* at index i when the stream was created.  The runtime evaluates
\* subscription() after every update(): an id it is already running keeps
\* its stream, an id that is new is started, an id that is gone is dropped.

\* The subscriptions AppModel::subscription asks for (mod.rs:278-287), by
\* the index of their id.
subscription ==
    [k \in 0..(MaxAccounts - 1) |->
        IF k < Len(accounts) /\ accounts[k + 1].session # 0
        THEN Some([account_id |-> accounts[k + 1].id,
                   session |-> accounts[k + 1].session])
        ELSE None]

\* The streams that run once the runtime has seen the subscriptions asked
\* for: those of Subscription::run_with_id (mod.rs:284) are told apart by
\* sub_id alone.
Tracked(running, asked) ==
    [k \in 0..(MaxAccounts - 1) |->
        IF asked[k] = None THEN None
        ELSE IF running[k] # None THEN running[k]
        ELSE asked[k]]

\* The runtime has evaluated subscription() since the last update().
Subscribed == watch_streams = Tracked(watch_streams, subscription)

\* The runtime evaluates subscription() after an update().
RuntimeSubscribe ==
    /\ ~Subscribed
    /\ watch_streams' = Tracked(watch_streams, subscription)
    /\ UNCHANGED << appVars, cacheVars, tasks, inbox, netVars, last, intents,
                    acctVars, collapsed_threads, visible_indices,
                    auto_read_suppressed, watch_ended, mimeVars >>

\* The stream with id "imap-watch-k" yields an event and its closure sends
\* Message::ImapEvent(account_id, evt) (mod.rs:284-285); seq is the session
\* the event comes from.  One such message is kept in the queue at a time.
WatchStreamSends(k) ==
    /\ IsSome(watch_streams[k])
    /\ LET s == Unwrap(watch_streams[k])
           evt == [Result("ImapEvent", TRUE) EXCEPT
                      !.account_id = s.account_id, !.seq = s.session]
       IN /\ CopiesIn(evt, inbox) = 0
          /\ Deliver(evt)
    /\ UNCHANGED << appVars, cacheVars, tasks, netVars, last, intents,
                    acctVars, uiVars >>

\* update() runs on one message at a time and the runtime evaluates
\* subscription() before the next one; connects run beside the loop.
NextStreams ==
    \/ RuntimeSubscribe
    \/ Subscribed /\ \E k \in 0..(MaxAccounts - 1) : WatchStreamSends(k)
    \/ Subscribed /\ \E id \in AccountIds : ForceReconnect(id)
    \/ Subscribed /\ \E id \in AccountIds : AccountEdit(id)
    \/ Subscribed /\ \E valid \in BOOLEAN : SetupSubmitAccount(valid)
    \/ Subscribed /\ SetupCancelAccount
    \/ Subscribed /\ \E id \in AccountIds : AccountRemove(id)
    \/ Subscribed /\ \E r \in Delivered : AccountConnected(r)
    \/ \E t \in Spawned : RunAccountConnect(t)
    \/ \E t \in Spawned : RunRemoveAccount(t)

SpecStreams == InitAccounts /\ [][NextStreams]_vars

\* The running stream of the account at place i of the registry is the one
\* of that account's session.
StreamOfCurrentSession(i) ==
    watch_streams[i - 1] = Some([account_id |-> accounts[i].id,
                                 session |-> accounts[i].session])

\* The ImapEvent messages a step puts in the queue.
NewImapEvents ==
    { r \in Delivered' : r.kind = "ImapEvent" /\ CopiesIn(r, inbox) = 0 }

\* C40: once the runtime has evaluated subscription(), each account with a
\* session has its watch stream running on that session, and every
\* ImapEvent a stream sends carries the id of a registered account whose
\* current session is the one the event comes from; also after a reconnect
\* has replaced the session and after the removal of an account has moved
\* the others one place down.
C40_WatchStreamFollowsAccount ==
    /\ [](Subscribed =>
            \A i \in 1..Len(accounts) :
                accounts[i].session # 0 => StreamOfCurrentSession(i))
    /\ [][\A r \in NewImapEvents :
             /\ IsSome(account_index(r.account_id))
             /\ accounts[Unwrap(account_index(r.account_id)) + 1].session
                    = r.seq]_vars

====
